---- MODULE Spec2Model ----
(***************************************************************************)
(* A model of evmscript: helper calls build Actions while the script runs, *)
(* then the ActionProcessor flattens them, simulates the stack, computes   *)
(* byte offsets and emits hex.                                             *)
(*                                                                         *)
(* Representation.  A hex string is a sequence of one-character strings.   *)
(* A BigInt (and a JS number, which the code converts with BigInt()) is    *)
(* its big-endian sequence of bytes without leading zero bytes (0 is the   *)
(* empty sequence), so that toString(16) is a real conversion.  An Action  *)
(* is an entry of the arena `actions`; Action.id + 1 is its index.         *)
(***************************************************************************)
EXTENDS Integers, Sequences, FiniteSets, TLC

VARIABLES
  actions,                 \* every Action constructed so far (by id)
  rtActions,               \* RuntimeContext.actions
  rtTailActions,           \* RuntimeContext.tailActions
  codeContext,             \* names of the script's context bound to an ActionPointer
  calls,                   \* the helper calls the script has made, in order
  pc,                      \* position of preprocess()
  error,                   \* the exception that ended the compile, if any
  intermediate,            \* ActionProcessor.intermediate
  actionStartIndeces,      \* ActionProcessor.actionStartIndeces
  actionEndIndeces,        \* ActionProcessor.actionEndIndeces
  stack,                   \* processStack: stack (index 1 is the top)
  actionStack,             \* processStack: actionStack
  stackHistory,            \* ActionProcessor.stackHistory
  itemIndex,               \* processStack: index of the next item of the map()
  nextIndex,               \* StackReference.nextIndex
  bytesPerInstruction,     \* ActionProcessor.bytesPerInstruction
  totalBytesAtInstruction, \* ActionProcessor.totalBytesAtInstruction
  jumpDestinations,        \* ActionProcessor.jumpDestinations
  output,                  \* the string preprocess() returns
  hx                       \* a value beside the compile: the Hexable the expression helpers
                           \* build, the result of an earlier compile, or the properties of
                           \* the RuntimeContext that are not buckets

scriptVars == <<actions, rtActions, rtTailActions, codeContext, calls>>
procVars == <<intermediate, actionStartIndeces, actionEndIndeces, stack, actionStack,
              stackHistory, itemIndex, nextIndex, bytesPerInstruction,
              totalBytesAtInstruction, jumpDestinations, output>>
vars == <<scriptVars, pc, error, procVars, hx>>

-----------------------------------------------------------------------------
(* Strings and BigInts *)

HexDigits ==
  <<"0", "1", "2", "3", "4", "5", "6", "7", "8", "9", "a", "b", "c", "d", "e", "f">>

ToUpperChar(c) ==
  CASE c = "a" -> "A" [] c = "b" -> "B" [] c = "c" -> "C"
    [] c = "d" -> "D" [] c = "e" -> "E" [] c = "f" -> "F" [] OTHER -> c

\* The string as it is, in the case toString(16) gives it.
KeepCase(str) == str

ToUpperCase(str) == [i \in 1..Len(str) |-> ToUpperChar(str[i])]

ByteToHex(b) == <<HexDigits[(b \div 16) + 1], HexDigits[(b % 16) + 1]>>

RECURSIVE BytesToHex(_)
BytesToHex(bytes) ==
  IF bytes = <<>> THEN <<>> ELSE ByteToHex(Head(bytes)) \o BytesToHex(Tail(bytes))

\* BigInt.prototype.toString(16): no leading zero digit, "0" for zero.
BigIntToString16(bytes) ==
  IF bytes = <<>> THEN <<"0">>
  ELSE (IF Head(bytes) < 16 THEN <<HexDigits[Head(bytes) + 1]>> ELSE ByteToHex(Head(bytes)))
       \o BytesToHex(Tail(bytes))

\* BigInt(n) of a JS number n >= 0.
RECURSIVE BigInt(_)
BigInt(n) == IF n = 0 THEN <<>> ELSE BigInt(n \div 256) \o <<n % 256>>

Min(a, b) == IF a < b THEN a ELSE b

RECURSIVE SumSeq(_)
SumSeq(s) == IF s = <<>> THEN 0 ELSE Head(s) + SumSeq(Tail(s))

RECURSIVE Join(_)
Join(strs) == IF strs = <<>> THEN <<>> ELSE Head(strs) \o Join(Tail(strs))

-----------------------------------------------------------------------------
(* grammar.ts: Instruction *)

InstructionTable ==
  { 
      <<"STOP", 0, 0, 0>>, <<"ADD", 1, 2, 1>>, <<"MUL", 2, 2, 1>>, <<"SUB", 3, 2, 1>>,
      <<"DIV", 4, 2, 1>>, <<"SDIV", 5, 2, 1>>, <<"MOD", 6, 2, 1>>, <<"SMOD", 7, 2, 1>>,
      <<"ADDMOD", 8, 3, 1>>, <<"MULMOD", 9, 3, 1>>, <<"EXP", 10, 2, 1>>,
      <<"SIGNEXTEND", 11, 2, 1>>, <<"LT", 16, 2, 1>>, <<"GT", 17, 2, 1>>, <<"SLT", 18, 2, 1>>,
      <<"SGT", 19, 2, 1>>, <<"EQ", 20, 2, 1>>, <<"ISZERO", 21, 1, 1>>, <<"AND", 22, 2, 1>>,
      <<"OR", 23, 2, 1>>, <<"XOR", 24, 2, 1>>, <<"NOT", 25, 1, 1>>, <<"BYTE", 26, 2, 1>>,
      <<"SHL", 27, 2, 1>>, <<"SHR", 28, 2, 1>>, <<"SAR", 29, 2, 1>>, <<"SHA3", 32, 2, 1>>,
      <<"ADDRESS", 48, 0, 1>>, <<"BALANCE", 49, 1, 1>>, <<"ORIGIN", 50, 0, 1>>,
      <<"CALLER", 51, 0, 1>>, <<"CALLVALUE", 52, 0, 1>>, <<"CALLDATALOAD", 53, 1, 1>>,
      <<"CALLDATASIZE", 54, 0, 1>>, <<"CALLDATACOPY", 55, 3, 0>>, <<"CODESIZE", 56, 0, 1>>,
      <<"CODECOPY", 57, 3, 0>>, <<"GASPRICE", 58, 0, 1>>, <<"EXTCODESIZE", 59, 1, 1>>,
      <<"EXTCODECOPY", 60, 4, 0>>, <<"RETURNDATASIZE", 61, 0, 1>>,
      <<"RETURNDATACOPY", 62, 3, 0>>, <<"EXTCODEHASH", 63, 1, 1>>, <<"BLOCKHASH", 64, 1, 1>>,
      <<"COINBASE", 65, 0, 1>>, <<"TIMESTAMP", 66, 0, 1>>, <<"NUMBER", 67, 0, 1>>,
      <<"DIFFICULTY", 68, 0, 1>>, <<"GASLIMIT", 69, 0, 1>>, <<"CHAINID", 70, 0, 1>>,
      <<"SELFBALANCE", 71, 0, 1>>, <<"BASEFEE", 72, 0, 1>>, <<"POP", 80, 1, 0>>,
      <<"MLOAD", 81, 1, 1>>, <<"MSTORE", 82, 2, 0>>, <<"MSTORE8", 83, 2, 0>>,
      <<"SLOAD", 84, 1, 1>>, <<"SSTORE", 85, 2, 1>>, <<"JUMP", 86, 1, 0>>,
      <<"JUMPI", 87, 2, 0>>, <<"PC", 88, 0, 1>>, <<"MSIZE", 89, 0, 1>>, <<"GAS", 90, 0, 1>>,
      <<"JUMPDEST", 91, 0, 0>>, <<"PUSH1", 96, 0, 1>>, <<"PUSH2", 97, 0, 1>>,
      <<"PUSH3", 98, 0, 1>>, <<"PUSH4", 99, 0, 1>>, <<"PUSH5", 100, 0, 1>>,
      <<"PUSH6", 101, 0, 1>>, <<"PUSH7", 102, 0, 1>>, <<"PUSH8", 103, 0, 1>>,
      <<"PUSH9", 104, 0, 1>>, <<"PUSH10", 105, 0, 1>>, <<"PUSH11", 106, 0, 1>>,
      <<"PUSH12", 107, 0, 1>>, <<"PUSH13", 108, 0, 1>>, <<"PUSH14", 109, 0, 1>>,
      <<"PUSH15", 110, 0, 1>>, <<"PUSH16", 111, 0, 1>>, <<"PUSH17", 112, 0, 1>>,
      <<"PUSH18", 113, 0, 1>>, <<"PUSH19", 114, 0, 1>>, <<"PUSH20", 115, 0, 1>>,
      <<"PUSH21", 116, 0, 1>>, <<"PUSH22", 117, 0, 1>>, <<"PUSH23", 118, 0, 1>>,
      <<"PUSH24", 119, 0, 1>>, <<"PUSH25", 120, 0, 1>>, <<"PUSH26", 121, 0, 1>>,
      <<"PUSH27", 122, 0, 1>>, <<"PUSH28", 123, 0, 1>>, <<"PUSH29", 124, 0, 1>>,
      <<"PUSH30", 125, 0, 1>>, <<"PUSH31", 126, 0, 1>>, <<"PUSH32", 127, 0, 1>>,
      <<"DUP1", 128, 0, 1>>, <<"DUP2", 129, 0, 1>>, <<"DUP3", 130, 0, 1>>,
      <<"DUP4", 131, 0, 1>>, <<"DUP5", 132, 0, 1>>, <<"DUP6", 133, 0, 1>>,
      <<"DUP7", 134, 0, 1>>, <<"DUP8", 135, 0, 1>>, <<"DUP9", 136, 0, 1>>,
      <<"DUP10", 137, 0, 1>>, <<"DUP11", 138, 0, 1>>, <<"DUP12", 139, 0, 1>>,
      <<"DUP13", 140, 0, 1>>, <<"DUP14", 141, 0, 1>>, <<"DUP15", 142, 0, 1>>,
      <<"DUP16", 143, 0, 1>>, <<"SWAP1", 144, 0, 0>>, <<"SWAP2", 145, 0, 0>>,
      <<"SWAP3", 146, 0, 0>>, <<"SWAP4", 147, 0, 0>>, <<"SWAP5", 148, 0, 0>>,
      <<"SWAP6", 149, 0, 0>>, <<"SWAP7", 150, 0, 0>>, <<"SWAP8", 151, 0, 0>>,
      <<"SWAP9", 152, 0, 0>>, <<"SWAP10", 153, 0, 0>>, <<"SWAP11", 154, 0, 0>>,
      <<"SWAP12", 155, 0, 0>>, <<"SWAP13", 156, 0, 0>>, <<"SWAP14", 157, 0, 0>>,
      <<"SWAP15", 158, 0, 0>>, <<"SWAP16", 159, 0, 0>>, <<"LOG0", 160, 2, 0>>,
      <<"LOG1", 161, 3, 0>>, <<"LOG2", 162, 4, 0>>, <<"LOG3", 163, 5, 0>>,
      <<"LOG4", 164, 6, 0>>, <<"CREATE", 240, 3, 1>>, <<"CALL", 241, 7, 1>>,
      <<"CALLCODE", 242, 7, 0>>, <<"RETURN", 243, 2, 0>>, <<"DELEGATECALL", 244, 6, 0>>,
      <<"CREATE2", 245, 4, 0>>, <<"STATICCALL", 250, 6, 0>>, <<"REVERT", 253, 2, 0>>,
      <<"SELFDESTRUCT", 255, 1, 0>>
  }

HasInstruction(name) == \E row \in InstructionTable : row[1] = name

Instruction(name) ==
  LET row == CHOOSE r \in InstructionTable : r[1] = name
  IN [kind |-> "Instruction", name |-> name, code |-> row[2],
      stackRemoved |-> row[3], stackAdded |-> row[4]]

\* A JS value that is `undefined`, e.g. Instruction["PUSH0"] or Instruction["DUP17"].
Undefined == [kind |-> "undefined"]

\* Instruction[name] for a computed name.
InstructionNamed(name) == IF HasInstruction(name) THEN Instruction(name) ELSE Undefined

isSwap(instruction) ==
  instruction.code >= Instruction("SWAP1").code /\ instruction.code <= Instruction("SWAP16").code

-----------------------------------------------------------------------------
(* helpers.ts and grammar.ts: the Hexable values *)

POINTER_BYTE_LENGTH == 2

\* A bigint (also what sanitizeHexStrings makes of a "0x..." string).
Literal(bytes) == [kind |-> "bigint", value |-> bytes]

\* A JS number n >= 0.
Number(n) == [kind |-> "number", value |-> n]

\* A string that does not start with "0x".
String == [kind |-> "string"]

LabelPointer(labelName) == [kind |-> "LabelPointer", labelName |-> labelName]

ActionPointer(id) == [kind |-> "ActionPointer", action |-> id]

ConcatedHexValue(items) == [kind |-> "ConcatedHexValue", items |-> items]

RelativeStackReference(class, id, index) ==
  [kind |-> "RelativeStackReference", class |-> class, action |-> id, index |-> index]

HexableKinds ==
  {"Instruction", "LabelPointer", "ActionPointer", "ConcatedHexValue", "ByteRange",
   "WordRange", "Padded", "SolidityString", "JumpMap", "RelativeStackReference"}

\* byteLength() throws on anything that is neither Hexable, number nor bigint.
RECURSIVE byteLengthThrows(_)
byteLengthThrows(input) ==
  CASE input.kind = "ConcatedHexValue" ->
         \E i \in 1..Len(input.items) : byteLengthThrows(input.items[i])
    [] input.kind \in HexableKinds -> FALSE
    [] input.kind \in {"number", "bigint"} -> FALSE
    [] OTHER -> TRUE

RECURSIVE byteLength(_)
byteLength(input) ==
  CASE input.kind = "Instruction" -> 1
    [] input.kind = "RelativeStackReference" -> 1
    [] input.kind = "LabelPointer" -> POINTER_BYTE_LENGTH
    [] input.kind = "ActionPointer" -> POINTER_BYTE_LENGTH
    [] input.kind = "ConcatedHexValue" ->
         SumSeq([i \in 1..Len(input.items) |-> byteLength(input.items[i])])
    [] input.kind \in {"ByteRange", "WordRange"} -> input.lengthInBytes
    [] input.kind = "Padded" ->
         input.itemLength + (input.lengthInBytes - (input.itemLength % input.lengthInBytes))
    [] input.kind = "SolidityString" ->
         32 + (input.length + (32 - (input.length % 32)))
    [] input.kind = "JumpMap" ->
         LET length == byteLength(input.items) IN length + (32 - (length % 32))
    [] input.kind = "number" ->
         LET length == Len(BigIntToString16(BigInt(input.value)))
         IN (length \div 2) + (length % 2)
    [] input.kind = "bigint" ->
         LET length == Len(BigIntToString16(input.value))
         IN (length \div 2) + (length % 2)

\* new ByteRange(item, start, length) throws when start is past the input.
ByteRangeThrows(item, startPositionInBytes) ==
  byteLengthThrows(item) \/ startPositionInBytes > byteLength(item)

ByteRange(item, startPositionInBytes, lengthInBytes) ==
  [kind |-> "ByteRange", item |-> item, startPositionInBytes |-> startPositionInBytes,
   lengthInBytes |-> lengthInBytes]

WordRangeThrows(item, startPositionInWords) ==
  byteLengthThrows(item) \/ startPositionInWords * 32 > byteLength(item)

WordRange(item, startPositionInWords, lengthInWords) ==
  [kind |-> "WordRange", item |-> item, startPositionInBytes |-> startPositionInWords * 32,
   lengthInBytes |-> lengthInWords * 32]

Padded(item, lengthInBytes, side) ==
  [kind |-> "Padded", item |-> item, itemLength |-> byteLength(item),
   lengthInBytes |-> lengthInBytes, side |-> side]

SolidityString(str) == [kind |-> "SolidityString", str |-> str, length |-> byteLength(str)]

JumpMap(names) ==
  [kind |-> "JumpMap",
   items |-> ConcatedHexValue([i \in 1..Len(names) |-> LabelPointer(names[i])])]

RECURSIVE leftPad(_, _)
leftPad(bytecode, length) ==
  IF Len(bytecode) % (length * 2) # 0 THEN leftPad(<<"0">> \o bytecode, length) ELSE bytecode

RECURSIVE rightPad(_, _)
rightPad(bytecode, length) ==
  IF Len(bytecode) % (length * 2) # 0 THEN rightPad(bytecode \o <<"0">>, length) ELSE bytecode

ensureFullByte(bytecode) == leftPad(bytecode, 1)

\* String.prototype.substr(start, length)
substr(str, start, length) ==
  IF start >= Len(str) THEN <<>> ELSE SubSeq(str, start + 1, Min(Len(str), start + length))

\* The context holds the id of the Action a name is bound to, or NoAction.
NoAction == 0 - 1

\* jumpDestinations[id] when no offset was recorded for the Action.
NoLocation == 0 - 1

\* toHex() throws: an unknown label, a pointer to an Action that has no recorded
\* location (undefined.toString), a raw stack reference, or a value that is no Hexable.
RECURSIVE toHexThrows(_, _, _)
toHexThrows(item, executedCodeContext, codeLocations) ==
  CASE item.kind = "LabelPointer" ->
         \/ item.labelName \notin DOMAIN executedCodeContext
         \/ executedCodeContext[item.labelName] = NoAction
         \/ executedCodeContext[item.labelName] \notin DOMAIN codeLocations
         \/ codeLocations[executedCodeContext[item.labelName]] = NoLocation
    [] item.kind = "ActionPointer" ->
         \/ item.action \notin DOMAIN codeLocations
         \/ codeLocations[item.action] = NoLocation
    [] item.kind = "ConcatedHexValue" ->
         \E i \in 1..Len(item.items) :
           toHexThrows(item.items[i], executedCodeContext, codeLocations)
    [] item.kind \in {"ByteRange", "WordRange", "Padded"} ->
         toHexThrows(item.item, executedCodeContext, codeLocations)
    [] item.kind = "SolidityString" ->
         toHexThrows(item.str, executedCodeContext, codeLocations)
    [] item.kind = "JumpMap" -> toHexThrows(item.items, executedCodeContext, codeLocations)
    [] item.kind \in {"Instruction", "number", "bigint"} -> FALSE
    [] OTHER -> TRUE

RECURSIVE toHex(_, _, _)
RECURSIVE translateToBytecode(_, _, _)

translateToBytecode(item, executedCodeContext, codeLocations) ==
  LET bytecode == IF item.kind \in HexableKinds
                  THEN toHex(item, executedCodeContext, codeLocations)
                  ELSE IF item.kind = "number"
                       THEN BigIntToString16(BigInt(item.value))
                       ELSE BigIntToString16(item.value)
  IN ToUpperCase(ensureFullByte(bytecode))

toHex(item, executedCodeContext, codeLocations) ==
  CASE item.kind = "Instruction" -> BigIntToString16(BigInt(item.code))
    [] item.kind = "LabelPointer" ->
         toHex(ActionPointer(executedCodeContext[item.labelName]),
               executedCodeContext, codeLocations)
    [] item.kind = "ActionPointer" ->
         leftPad(BigIntToString16(BigInt(codeLocations[item.action])), POINTER_BYTE_LENGTH)
    [] item.kind = "ConcatedHexValue" ->
         Join([i \in 1..Len(item.items) |->
                 translateToBytecode(item.items[i], executedCodeContext, codeLocations)])
    [] item.kind \in {"ByteRange", "WordRange"} ->
         LET bytecode == translateToBytecode(item.item, executedCodeContext, codeLocations)
             chunk == substr(bytecode, item.startPositionInBytes * 2, item.lengthInBytes * 2)
         IN rightPad(chunk, item.lengthInBytes)
    [] item.kind = "Padded" ->
         LET bytecode == translateToBytecode(item.item, executedCodeContext, codeLocations)
         IN IF item.side = "left"
            THEN leftPad(bytecode, item.lengthInBytes)
            ELSE rightPad(bytecode, item.lengthInBytes)
    [] item.kind = "SolidityString" ->
         toHex(ConcatedHexValue(<<Padded(Number(item.length), 32, "left"),
                                  Padded(item.str, 32, "right")>>),
               executedCodeContext, codeLocations)
    [] item.kind = "JumpMap" ->
         rightPad(toHex(item.items, executedCodeContext, codeLocations), 32)

-----------------------------------------------------------------------------
(* grammar.ts: Action.  H is the heap of the running script: the Actions  *)
(* constructed so far and the exception thrown, if any.                    *)

NoError == ""

Throw(H, message) == IF H.error # NoError THEN H ELSE [H EXCEPT !.error = message]

ActionItem(id) == [kind |-> "Action", id |-> id]

\* new Action(name), constructed by a helper called from the script at `pos`.
NewAction(H, name, pos) ==
  [H EXCEPT !.actions =
     Append(@, [name |-> name, class |-> "Action", parentAction |-> NoAction,
                intermediate |-> <<>>, isJumpDestination |-> FALSE,
                line |-> pos[1], column |-> pos[2]])]

LastId(H) == Len(H.actions) - 1

originalLineAndColumn(action) == <<action.line, action.column>>

\* isElligableParentOf with the comparison turned round: the caller at or after.
isElligableParentOfAtOrAfter(this, other) ==
  LET thisLine == originalLineAndColumn(this)[1]
      thisColumn == originalLineAndColumn(this)[2]
      otherLine == originalLineAndColumn(other)[1]
      otherColumn == originalLineAndColumn(other)[2]
  IN IF thisLine > otherLine THEN TRUE
     ELSE IF thisLine < otherLine THEN FALSE
     ELSE thisColumn >= otherColumn

isElligableParentOf(this, other) ==
  LET thisLine == originalLineAndColumn(this)[1]
      thisColumn == originalLineAndColumn(this)[2]
      otherLine == originalLineAndColumn(other)[1]
      otherColumn == originalLineAndColumn(other)[2]
  IN IF thisLine < otherLine THEN TRUE
     ELSE IF thisLine > otherLine THEN FALSE
     ELSE thisColumn <= otherColumn

\* The forEach of Action.push: an Action among the items gets `id` as its parent.
RECURSIVE AdoptItems(_, _, _)
AdoptItems(H, id, items) ==
  IF items = <<>> \/ H.error # NoError THEN H
  ELSE LET item == Head(items)
       IN IF item.kind # "Action" THEN AdoptItems(H, id, Tail(items))
          ELSE IF H.actions[item.id + 1].parentAction # NoAction
               THEN Throw(H, "FATAL ERROR: already the child of another action")
          ELSE IF ~isElligableParentOf(H.actions[id + 1], H.actions[item.id + 1])
               THEN Throw(H, "Attempting to pass previously executed action")
          ELSE AdoptItems([H EXCEPT !.actions[item.id + 1].parentAction = id],
                          id, Tail(items))

\* Action.push(...items)
ActionPush(H, id, items) ==
  LET adopted == AdoptItems(H, id, items)
  IN IF adopted.error # NoError THEN adopted
     ELSE [adopted EXCEPT !.actions[id + 1].intermediate = @ \o items]

\* Action.forcePush(...items): the parent is set without the checks of push.
forcePush(H, id, items) ==
  [H EXCEPT !.actions =
     [i \in 1..Len(@) |->
        IF \E k \in 1..Len(items) : items[k].kind = "Action" /\ items[k].id = i - 1
        THEN [@[i] EXCEPT !.parentAction = id]
        ELSE IF i = id + 1 THEN [@[i] EXCEPT !.intermediate = @ \o items]
        ELSE @[i]]]

\* new TailAction(name), constructed by a helper called from the script at `pos`.
NewTailAction(H, name, pos) ==
  [H EXCEPT !.actions =
     Append(@, [name |-> name, class |-> "TailAction", parentAction |-> NoAction,
                intermediate |-> <<>>, isJumpDestination |-> FALSE,
                line |-> pos[1], column |-> pos[2]])]

DupStackReferenceFrom(ref) == RelativeStackReference("Dup", ref.action, ref.index)

HotSwapStackReferenceFrom(ref) == RelativeStackReference("HotSwap", ref.action, ref.index)

-----------------------------------------------------------------------------
(* actions.ts: the helpers.  Each returns the heap after the call; the     *)
(* Action the helper returns is the first one it constructed.              *)

isHexable(input) == input.kind \in HexableKinds \cup {"number", "bigint"}

push(H, input, pos) ==
  LET H1 == NewAction(H, "push", pos)
  IN IF H.error # NoError THEN H
     ELSE IF input.kind = "Action"
          THEN Throw(H, "push() cannot accept the results of other actions. Please check "
                        \o "your code to ensure push() only receives preprocessable data.")
     ELSE IF ~isHexable(input) THEN Throw(H1, "Expected input to be a hexable value")
     ELSE IF byteLengthThrows(input) THEN Throw(H1, "Unknown input to byteLength()")
     ELSE IF ~(byteLength(input) <= 32)
          THEN Throw(H1, "Expected input to be less than or equal to 32 bytes")
     ELSE [H1 EXCEPT !.actions[Len(H1.actions)].intermediate =
             <<InstructionNamed("PUSH" \o ToString(byteLength(input))), input>>]

handleParameter(H, id, item) ==
  IF H.error # NoError THEN H
  ELSE IF item.kind = "RelativeStackReference"
       THEN ActionPush(H, id, <<DupStackReferenceFrom(item)>>)
  ELSE IF item.kind = "ActionPointer"
          /\ isElligableParentOf(H.actions[id + 1], H.actions[item.action + 1])
       THEN ActionPush(H, id, <<ActionItem(item.action)>>)
  ELSE LET H1 == push(H, item, originalLineAndColumn(H.actions[id + 1]))
       IN IF H1.error # NoError THEN H1 ELSE ActionPush(H1, id, <<ActionItem(LastId(H1))>>)

RECURSIVE handleParameters(_, _, _)
handleParameters(H, id, items) ==
  IF items = <<>> THEN H
  ELSE handleParameters(handleParameter(H, id, Head(items)), id, Tail(items))

Reverse(s) == [i \in 1..Len(s) |-> s[Len(s) + 1 - i]]

\* createDefaultAction without args.reverse(): the parameters handled first to last.
createDefaultActionInOrder(H, name, instruction, args, pos) ==
  LET H1 == NewAction(H, name, pos)
      id == LastId(H1)
  IN IF H.error # NoError THEN H
     ELSE ActionPush(handleParameters(H1, id, args), id, <<instruction>>)

\* createDefaultAction(name, instruction)(...args)
createDefaultAction(H, name, instruction, args, pos) ==
  LET H1 == NewAction(H, name, pos)
      id == LastId(H1)
  IN IF H.error # NoError THEN H
     ELSE ActionPush(handleParameters(H1, id, Reverse(args)), id, <<instruction>>)

set(H, args, pos) ==
  LET H1 == NewAction(H, "set", pos)
      id == LastId(H1)
      H2 == IF Len(args) = 2 THEN handleParameter(H1, id, args[2]) ELSE H1
  IN IF H.error # NoError THEN H
     ELSE IF ~(Len(args) >= 1 /\ Len(args) <= 2) THEN Throw(H, "expect(received)")
     ELSE IF args[1].kind # "RelativeStackReference"
          THEN Throw(H2, "set() expects the first parameter to always be a stack reference.")
     ELSE ActionPush(H2, id, <<HotSwapStackReferenceFrom(args[1]), Instruction("POP")>>)

dup(H, input, pos) ==
  LET H1 == NewAction(H, "dup", pos)
      id == LastId(H1)
  IN IF H.error # NoError THEN H
     ELSE IF input.kind = "number"
          THEN ActionPush(H1, id, <<InstructionNamed("DUP" \o ToString(input.value))>>)
     ELSE ActionPush(H1, id, <<DupStackReferenceFrom(input)>>)

-----------------------------------------------------------------------------
(* actions.ts: alloc, revert, bail, assertNonPayable.  An Action these    *)
(* helpers construct themselves captures the position of the script's     *)
(* call, as the Action they return does.                                   *)

\* allocStack(amountOrStackReference, pushOffsets)
allocStack(H, input, pushOffsets, pos) ==
  LET H1 == NewAction(H, "allocStack", pos)
      id == LastId(H1)
      stores == ActionPush(H1, id,
                  [i \in 1..(2 * input.value) |->
                     IF i % 2 = 1 THEN Instruction("MSIZE") ELSE Instruction("MSTORE")])
      length == push(stores, Number(input.value * 32), pos)
      offsets == ActionPush(ActionPush(length, id, <<ActionItem(LastId(length))>>), id,
                            <<Instruction("DUP1"), Instruction("MSIZE"), Instruction("SUB")>>)
      first == IF pushOffsets THEN ActionPush(H1, id, <<Instruction("MSIZE")>>) ELSE H1
      stored == ActionPush(first, id, <<DupStackReferenceFrom(input), Instruction("MSIZE"),
                                        Instruction("MSTORE")>>)
      word == push(stored, Number(32), pos)
      swapped == ActionPush(word, id, <<ActionItem(LastId(word)), Instruction("SWAP1")>>)
  IN IF H.error # NoError THEN H
     ELSE IF input.kind = "number" THEN (IF pushOffsets THEN offsets ELSE stores)
     ELSE IF input.kind = "RelativeStackReference"
          THEN (IF pushOffsets THEN swapped ELSE stored)
     ELSE H1

\* The do-while of alloc from word `wordIndex` on.
RECURSIVE allocWords(_, _, _, _, _, _)
allocWords(H, id, input, length, wordIndex, pos) ==
  LET bytesLeft == length - (wordIndex * 32)
      P1 == push(H, ByteRange(input, wordIndex * 32, bytesLeft), pos)
      P2 == push(P1, Number((32 - bytesLeft) * 8), pos)
      W1 == push(H, WordRange(input, wordIndex, 1), pos)
      pushed == IF bytesLeft < 32
                THEN ActionPush(P2, id, <<ActionItem(LastId(P1)), ActionItem(LastId(P2)),
                                           Instruction("SHL")>>)
                ELSE ActionPush(W1, id, <<ActionItem(LastId(W1))>>)
      stored == ActionPush(ActionPush(pushed, id, <<Instruction("MSIZE")>>),
                           id, <<Instruction("MSTORE")>>)
  IN IF H.error # NoError THEN H
     ELSE IF (wordIndex + 1) * 32 < length
          THEN allocWords(stored, id, input, length, wordIndex + 1, pos)
     ELSE stored

\* alloc(input, pushOffsets)
alloc(H, input, pushOffsets, pos) ==
  LET length == byteLength(input)
      H1 == NewAction(H, "alloc", pos)
      id == LastId(H1)
      H2 == push(H1, Number(length), pos)
      H3 == ActionPush(ActionPush(H2, id, <<ActionItem(LastId(H2))>>),
                       id, <<Instruction("MSIZE")>>)
  IN IF H.error # NoError THEN H
     ELSE IF byteLengthThrows(input) THEN Throw(H, "Unknown input to byteLength()")
     ELSE allocWords(IF pushOffsets THEN H3 ELSE H1, id, input, length, 0, pos)

\* bail()
bail(H, pos) ==
  LET H1 == NewAction(H, "bail", pos)
  IN IF H.error # NoError THEN H
     ELSE ActionPush(H1, LastId(H1), <<Instruction("PUSH1"), Literal(BigInt(0)),
                                       Instruction("DUP1"), Instruction("REVERT")>>)

\* revert(input); `input` is Undefined when the script passes none.
revert(H, input, pos) ==
  LET H1 == NewAction(H, "revert", pos)
      id == LastId(H1)
      H2 == alloc(H1, ConcatedHexValue(<<Number(147028384), Padded(Number(32), 32, "left"),
                                         SolidityString(input)>>), TRUE, pos)
      H3 == IF input = Undefined THEN H1
            ELSE IF byteLengthThrows(input) THEN Throw(H1, "Unknown input to byteLength()")
            ELSE ActionPush(H2, id, <<ActionItem(id + 1)>>)
  IN IF H.error # NoError THEN H
     ELSE ActionPush(H3, id, <<Instruction("REVERT")>>)

\* assertNonPayable(input); `input` is Undefined when the script passes none.
assertNonPayable(H, input, pos) ==
  LET H1 == NewAction(H, "assertNonPayable", pos)
      id == LastId(H1)
      H2 == NewAction(H1, "assertNonPayable:skipRevert", pos)
      skipRevert == LastId(H2)
      H3 == [H2 EXCEPT !.actions[skipRevert + 1].isJumpDestination = TRUE]
      H4 == ActionPush(H3, id, <<Instruction("CALLVALUE"), Instruction("ISZERO"),
                                 Instruction("PUSH2"), ActionPointer(skipRevert),
                                 Instruction("JUMPI")>>)
      H5 == IF input = Undefined THEN bail(H4, pos) ELSE revert(H4, input, pos)
      H6 == ActionPush(H5, id, <<ActionItem(skipRevert + 1)>>)
  IN IF H.error # NoError THEN H
     ELSE ActionPush(H6, id, <<ActionItem(skipRevert)>>)

-----------------------------------------------------------------------------

\* The message of pushN() for an input of another length.
WrongLengthMessage(expectedByteLength, actualByteLength) ==
  "Function push" \o ToString(expectedByteLength) \o "() expected "
  \o ToString(expectedByteLength) \o " bytes but received " \o ToString(actualByteLength)
  \o "."

\* specificPushFunctions[index](input), index = expectedByteLength - 1: pushN(input)
specificPush(H, expectedByteLength, input, pos) ==
  LET instructionName == "PUSH" \o ToString(expectedByteLength)
      H1 == NewAction(H, "push" \o ToString(expectedByteLength), pos)
  IN IF H.error # NoError THEN H
     ELSE IF byteLengthThrows(input) THEN Throw(H, "Unknown input to byteLength()")
     ELSE IF byteLength(input) # expectedByteLength
          THEN Throw(H, WrongLengthMessage(expectedByteLength, byteLength(input)))
     ELSE [H1 EXCEPT !.actions[Len(H1.actions)].intermediate =
             <<InstructionNamed(instructionName), input>>]

-----------------------------------------------------------------------------

(* actions.ts: calldataload and dispatch.  The mapping of dispatch is a    *)
(* sequence of entries in the order of the object's keys; an entry holds   *)
(* the first four bytes of the keccak256 of its signature, as the string   *)
(* "0x" and eight digits is written here as four bytes, and its pointer.   *)

\* calldataload(offset, lengthInBytes); `offset` is Undefined when none is passed.
calldataload(H, offset, lengthInBytes, pos) ==
  LET H1 == NewAction(H, "calldataload", pos)
      id == LastId(H1)
      H2 == ActionPush(handleParameter(H1, id, offset), id, <<Instruction("CALLDATALOAD")>>)
      H3 == createDefaultAction(H2, "shr", Instruction("SHR"),
                                <<Number((32 - lengthInBytes) * 8)>>, pos)
  IN IF H.error # NoError THEN H
     ELSE IF offset = Undefined THEN ActionPush(H1, id, <<Instruction("CALLDATALOAD")>>)
     ELSE IF ~(lengthInBytes <= 32) THEN Throw(H1, "expect(received).toBeLessThanOrEqual(expected)")
     ELSE IF lengthInBytes # 32 THEN ActionPush(H3, id, <<ActionItem(LastId(H2) + 1)>>)
     ELSE H2

\* BigInt("0x..."): the value of the digits, which has no leading zero byte.
RECURSIVE BigIntOfHex(_)
BigIntOfHex(bytes) ==
  IF bytes # <<>> /\ Head(bytes) = 0 THEN BigIntOfHex(Tail(bytes)) ELSE bytes

\* The forEach of dispatch from entry i on.
RECURSIVE dispatchEntries(_, _, _, _, _)
dispatchEntries(H, id, mapping, i, pos) ==
  LET pointer == mapping[i].pointer
      fourBytes == mapping[i].fourBytes
      H1 == calldataload(H, Number(0), 4, pos)
      H2 == ActionPush(H1, id, <<ActionItem(LastId(H) + 1)>>)
      H3 == ActionPush(H2, id, <<Instruction("PUSH4"), Literal(BigIntOfHex(fourBytes)),
                                 Instruction("EQ"), Instruction("PUSH2"), pointer,
                                 Instruction("JUMPI")>>)
  IN IF H.error # NoError \/ i > Len(mapping) THEN H
     ELSE dispatchEntries(H3, id, mapping, i + 1, pos)

\* dispatch(mapping)
dispatch(H, mapping, pos) ==
  LET H1 == NewAction(H, "dispatch", pos)
  IN IF H.error # NoError THEN H
     ELSE dispatchEntries(H1, LastId(H1), mapping, 1, pos)

-----------------------------------------------------------------------------

(* helpers.ts createActionHandler and index.ts RuntimeContext: what a      *)
(* helper call of the script does to the script's state.                   *)

NoLabel == "<none>"

\* Names of the context that start with "_" (key.indexOf("_") == 0).
UnderscoreNames == {"_c"}

LabelNames == {"a", "b"} \cup UnderscoreNames

Script ==
  [actions |-> actions, rtActions |-> rtActions, rtTailActions |-> rtTailActions,
   codeContext |-> codeContext, calls |-> calls, error |-> NoError]

EmptyScript ==
  [actions |-> <<>>, rtActions |-> <<>>, rtTailActions |-> <<>>,
   codeContext |-> [name \in LabelNames |-> NoAction], calls |-> <<>>, error |-> NoError]

Heap(S) == [actions |-> S.actions, error |-> S.error]

\* RuntimeContext.pushActions(action)
pushActions(S, id) ==
  IF S.actions[id + 1].class = "TailAction"
  THEN [S EXCEPT !.rtTailActions = Append(@, id)]
  ELSE [S EXCEPT !.rtActions = Append(@, id)]

\* The handler of a helper: `H` is the heap the helper function leaves when called
\* with `args` in script state S; `label = handler(...)` binds the returned pointer
\* to a name.
createActionHandler(S, H, label, helper, args) ==
  LET firstAction == Len(S.actions)
      S1 == [S EXCEPT !.actions = H.actions, !.error = H.error,
                      !.calls = Append(@, [helper |-> helper, args |-> args,
                                           label |-> label, id |-> firstAction])]
      S2 == pushActions(S1, firstAction)
  IN IF S.error # NoError THEN S
     ELSE IF H.error # NoError THEN S1
     ELSE [S2 EXCEPT !.codeContext = IF label = NoLabel THEN @
                                     ELSE [@ EXCEPT ![label] = firstAction]]

\* The script's state becomes S; an exception ends preprocess().
Evaluate(S) ==
  /\ actions' = S.actions
  /\ rtActions' = S.rtActions
  /\ rtTailActions' = S.rtTailActions
  /\ codeContext' = S.codeContext
  /\ calls' = S.calls
  /\ IF S.error # NoError
     THEN pc' = "error" /\ error' = S.error
     ELSE UNCHANGED <<pc, error>>
  /\ UNCHANGED <<procVars, hx>>

-----------------------------------------------------------------------------
(* index.ts: preprocess() after the script has run, and ActionProcessor *)

\* The promotion without the filter on the name's first character.
PromotedUnderAnyName(id) ==
  \E key \in DOMAIN codeContext : codeContext[key] = id

\* preprocess(): every Action bound to a name that does not start with "_" becomes a
\* jump destination.
Promoted(id) ==
  \E key \in DOMAIN codeContext :
    codeContext[key] = id /\ key \notin UnderscoreNames

\* ActionProcessor.constructor: actions, then tail actions, without the children.
TopLevelActions(A, main, tail) ==
  SelectSeq(main \o tail, LAMBDA id : A[id + 1].parentAction = NoAction)

FinishScript ==
  /\ pc = "script"
  /\ actions' = [i \in 1..Len(actions) |->
                   IF Promoted(i - 1) THEN [actions[i] EXCEPT !.isJumpDestination = TRUE]
                   ELSE actions[i]]
  /\ pc' = "processActions"
  /\ UNCHANGED <<rtActions, rtTailActions, codeContext, calls, error, procVars, hx>>

\* array[index].push(id) on a sparse array of arrays (index counts from 0).
AddAt(array, index, id) ==
  LET grown == IF Len(array) < index + 1
               THEN array \o [i \in 1..(index + 1 - Len(array)) |-> <<>>]
               ELSE array
  IN [grown EXCEPT ![index + 1] = Append(@, id)]

\* array[index] of such an array, the empty list where it is undefined.
At(array, index) == IF index + 1 \in DOMAIN array THEN array[index + 1] ELSE <<>>

RECURSIVE processAction(_, _, _)
RECURSIVE processItems(_, _, _)

\* The closure processAction of processActions; P is the processor being filled.
processAction(A, P, id) ==
  LET action == A[id + 1]
      startIndex == Len(P.intermediate)
      P1 == [P EXCEPT !.actionStartIndeces = AddAt(@, startIndex, id)]
      P2 == IF action.isJumpDestination
            THEN [P1 EXCEPT !.intermediate = Append(@, Instruction("JUMPDEST"))]
            ELSE P1
      P3 == processItems(A, P2, action.intermediate)
      endingIndex == Len(P3.intermediate) - 1
  IN IF P.error # NoError THEN P
     ELSE IF ~action.isJumpDestination /\ Len(action.intermediate) = 0
          THEN [P EXCEPT !.error = "Cannot process action: it contains no instructions."]
     ELSE IF P3.error # NoError THEN P3
     ELSE [P3 EXCEPT !.actionEndIndeces = AddAt(@, endingIndex, id)]

processItems(A, P, items) ==
  IF items = <<>> \/ P.error # NoError THEN P
  ELSE LET item == Head(items)
       IN IF item.kind = "Action"
          THEN processItems(A, processAction(A, P, item.id), Tail(items))
          ELSE processItems(A, [P EXCEPT !.intermediate = Append(@, item)], Tail(items))

RECURSIVE processAll(_, _, _)
processAll(A, P, ids) ==
  IF ids = <<>> THEN P ELSE processAll(A, processAction(A, P, Head(ids)), Tail(ids))

processActions(A, ids) ==
  LET P == processAll(A, [intermediate |-> <<>>, actionStartIndeces |-> <<>>,
                          actionEndIndeces |-> <<>>, error |-> NoError], ids)
  IN IF P.error = NoError /\ At(P.actionStartIndeces, 0) = <<>>
     THEN [P EXCEPT !.error =
             "FATAL ERROR: No first action; processActions() created unexpected output."]
     ELSE P

ProcessActions ==
  /\ pc = "processActions"
  /\ LET P == processActions(actions, TopLevelActions(actions, rtActions, rtTailActions))
     IN IF P.error # NoError
        THEN /\ pc' = "error"
             /\ error' = P.error
             /\ UNCHANGED <<intermediate, actionStartIndeces, actionEndIndeces>>
        ELSE /\ pc' = "processStack"
             /\ intermediate' = P.intermediate
             /\ actionStartIndeces' = P.actionStartIndeces
             /\ actionEndIndeces' = P.actionEndIndeces
             /\ error' = error
  /\ UNCHANGED <<scriptVars, stack, actionStack, stackHistory, itemIndex, nextIndex,
                 bytesPerInstruction, totalBytesAtInstruction, jumpDestinations,
                 output, hx>>

\* The position of a stack reference taken to be its id, which depends on the value
\* StackReference.nextIndex had when the compile started.
indexOfId(array, value) ==
  IF \E i \in 1..Len(array) : array[i] = value THEN value ELSE 0 - 1

\* Array.prototype.indexOf on the stack: the first position from the top, -1 if absent.
indexOf(array, value) ==
  IF \E i \in 1..Len(array) : array[i] = value
  THEN (CHOOSE i \in 1..Len(array) :
          array[i] = value /\ \A j \in 1..(i - 1) : array[j] # value) - 1
  ELSE 0 - 1

\* A stack slot that holds `undefined` (an index past the end of a snapshot).
NoReference == 0 - 1

\* The message of getReplacement() when Instruction["DUP17"] or ["SWAP0"] is undefined.
TooDeepMessage(actionName, op) ==
  "Stack reference from " \o actionName \o "() is too deep; cannot use " \o op

\* The message of processStack when the slot is not on the stack.
WontExistMessage(actionName) ==
  "Stack slot referenced in call to function " \o actionName
  \o "() won't exist on the stack during runtime. Check instructions and ensure the "
  \o "slot hasn't been previously consumed."

\* What the catch of processStack puts before the message of getReplacement().
InActionPrefix(action) ==
  "in " \o action.name \o "():" \o ToString(originalLineAndColumn(action)[1]) \o ":"
  \o ToString(originalLineAndColumn(action)[2]) \o " -- "

\* getReplacement with DUP counted from 0: DUP(depth) instead of DUP(depth + 1).
getReplacementDupFromZero(ref, actionName, depth) ==
  LET instruction == IF ref.class = "Dup"
                     THEN InstructionNamed("DUP" \o ToString(depth))
                     ELSE InstructionNamed("SWAP" \o ToString(depth))
  IN IF instruction = Undefined
     THEN [error |-> TooDeepMessage(actionName, IF ref.class = "Dup" THEN "DUP" ELSE "SWAP"),
           item |-> ref]
     ELSE [error |-> NoError, item |-> instruction]

\* getReplacement with SWAP counted like DUP: SWAP(depth + 1) instead of SWAP(depth).
getReplacementSwapFromOne(ref, actionName, depth) ==
  LET instruction == InstructionNamed((IF ref.class = "Dup" THEN "DUP" ELSE "SWAP")
                                      \o ToString(depth + 1))
  IN IF instruction = Undefined
     THEN [error |-> TooDeepMessage(actionName, IF ref.class = "Dup" THEN "DUP" ELSE "SWAP"),
           item |-> ref]
     ELSE [error |-> NoError, item |-> instruction]

\* getReplacement(depth) of the three reference classes; the raw class throws.
getReplacement(ref, actionName, depth) ==
  LET instruction == IF ref.class = "Dup"
                     THEN InstructionNamed("DUP" \o ToString(depth + 1))
                     ELSE InstructionNamed("SWAP" \o ToString(depth))
  IN IF ref.class = "Raw"
     THEN [error |-> "FATAL ERROR: Attempting to replace a raw relative stack reference.",
           item |-> ref]
     ELSE IF instruction = Undefined
     THEN [error |-> TooDeepMessage(actionName, IF ref.class = "Dup" THEN "DUP" ELSE "SWAP"),
           item |-> ref]
     ELSE [error |-> NoError, item |-> instruction]

\* lowerReference with the slot of the reference ignored: the top of the snapshot.
lowerReferenceToTop(A, ref, currentAction, currentStack, history) ==
  LET realReference ==
        IF 0 < Len(history[ref.action]) THEN history[ref.action][1] ELSE NoReference
      currentDepth == indexOf(currentStack, realReference)
  IN IF ref.action \notin DOMAIN history
     THEN [error |-> "TypeError: Cannot read properties of undefined", item |-> ref]
     ELSE IF currentDepth < 0
     THEN [error |-> WontExistMessage(A[currentAction + 1].name), item |-> ref]
     ELSE LET replaced == getReplacement(ref, A[ref.action + 1].name, currentDepth)
          IN IF replaced.error = NoError THEN replaced
             ELSE [replaced EXCEPT !.error = InActionPrefix(A[currentAction + 1]) \o @]

\* processStack, first block: a stack reference becomes a DUP or a SWAP.
lowerReference(A, ref, currentAction, currentStack, history) ==
  LET realReference ==
        IF ref.index < Len(history[ref.action]) THEN history[ref.action][ref.index + 1]
        ELSE NoReference
      currentDepth == indexOf(currentStack, realReference)
  IN IF ref.action \notin DOMAIN history
     THEN [error |-> "TypeError: Cannot read properties of undefined", item |-> ref]
     ELSE IF currentDepth < 0
     THEN [error |-> WontExistMessage(A[currentAction + 1].name), item |-> ref]
     ELSE LET replaced == getReplacement(ref, A[ref.action + 1].name, currentDepth)
          IN IF replaced.error = NoError THEN replaced
             ELSE [replaced EXCEPT !.error = InActionPrefix(A[currentAction + 1]) \o @]

\* applyInstruction without the test for a hot swap: every SWAP permutes the stack.
applyInstructionHotSwapPermutes(instruction, original, currentStack, next) ==
  LET swapIndex == instruction.code - Instruction("SWAP1").code + 1
      swaps == isSwap(instruction)
      swapped == IF swaps /\ swapIndex < Len(currentStack)
                 THEN [currentStack EXCEPT ![1] = currentStack[swapIndex + 1],
                                           ![swapIndex + 1] = currentStack[1]]
                 ELSE currentStack
      removed == instruction.stackRemoved
      added == instruction.stackAdded
      shifted == SubSeq(swapped, Min(removed, Len(swapped)) + 1, Len(swapped))
      unshifted == [i \in 1..added |-> next + added - i] \o shifted
  IN IF swaps /\ swapIndex >= Len(currentStack)
     THEN [error |-> "Cannot execute SWAP" \o ToString(swapIndex)
                     \o ": swap index out of range",
           stack |-> currentStack, nextIndex |-> next]
     ELSE [error |-> NoError, stack |-> unshifted, nextIndex |-> next + added]

\* The effect of an instruction with the swap index counted from SWAP1 = 0.
applyInstructionSwapFromZero(instruction, original, currentStack, next) ==
  LET swapIndex == instruction.code - Instruction("SWAP1").code
      swaps == isSwap(instruction)
               /\ ~(original.kind = "RelativeStackReference" /\ original.class = "HotSwap")
      swapped == IF swaps /\ swapIndex < Len(currentStack)
                 THEN [currentStack EXCEPT ![1] = currentStack[swapIndex + 1],
                                           ![swapIndex + 1] = currentStack[1]]
                 ELSE currentStack
      removed == instruction.stackRemoved
      added == instruction.stackAdded
      shifted == SubSeq(swapped, Min(removed, Len(swapped)) + 1, Len(swapped))
      unshifted == [i \in 1..added |-> next + added - i] \o shifted
  IN IF swaps /\ swapIndex >= Len(currentStack)
     THEN [error |-> "Cannot execute SWAP" \o ToString(swapIndex)
                     \o ": swap index out of range",
           stack |-> currentStack, nextIndex |-> next]
     ELSE [error |-> NoError, stack |-> unshifted, nextIndex |-> next + added]

\* The effect of an instruction with DUPn putting the entry at index n-1 on top again
\* instead of a new StackReference.
applyInstructionDupCopies(instruction, original, currentStack, next) ==
  LET swapIndex == instruction.code - Instruction("SWAP1").code + 1
      dupIndex == instruction.code - Instruction("DUP1").code + 1
      dups == instruction.code >= Instruction("DUP1").code
              /\ instruction.code <= Instruction("DUP16").code
              /\ dupIndex <= Len(currentStack)
      swaps == isSwap(instruction)
               /\ ~(original.kind = "RelativeStackReference" /\ original.class = "HotSwap")
      swapped == IF swaps /\ swapIndex < Len(currentStack)
                 THEN [currentStack EXCEPT ![1] = currentStack[swapIndex + 1],
                                           ![swapIndex + 1] = currentStack[1]]
                 ELSE currentStack
      removed == instruction.stackRemoved
      added == instruction.stackAdded
      shifted == SubSeq(swapped, Min(removed, Len(swapped)) + 1, Len(swapped))
      unshifted == [i \in 1..added |-> next + added - i] \o shifted
  IN IF swaps /\ swapIndex >= Len(currentStack)
     THEN [error |-> "Cannot execute SWAP" \o ToString(swapIndex)
                     \o ": swap index out of range",
           stack |-> currentStack, nextIndex |-> next]
     ELSE IF dups
     THEN [error |-> NoError, stack |-> <<currentStack[dupIndex]>> \o currentStack,
           nextIndex |-> next]
     ELSE [error |-> NoError, stack |-> unshifted, nextIndex |-> next + added]

\* The effect of an instruction with a check of the stack's size before the removal.
applyInstructionChecksUnderflow(instruction, original, currentStack, next) ==
  LET swapIndex == instruction.code - Instruction("SWAP1").code + 1
      swaps == isSwap(instruction)
               /\ ~(original.kind = "RelativeStackReference" /\ original.class = "HotSwap")
      swapped == IF swaps /\ swapIndex < Len(currentStack)
                 THEN [currentStack EXCEPT ![1] = currentStack[swapIndex + 1],
                                           ![swapIndex + 1] = currentStack[1]]
                 ELSE currentStack
      removed == instruction.stackRemoved
      added == instruction.stackAdded
      shifted == SubSeq(swapped, Min(removed, Len(swapped)) + 1, Len(swapped))
      unshifted == [i \in 1..added |-> next + added - i] \o shifted
  IN IF swaps /\ swapIndex >= Len(currentStack)
     THEN [error |-> "Cannot execute SWAP" \o ToString(swapIndex)
                     \o ": swap index out of range",
           stack |-> currentStack, nextIndex |-> next]
     ELSE IF removed > Len(swapped)
     THEN [error |-> "stack underflow", stack |-> currentStack, nextIndex |-> next]
     ELSE [error |-> NoError, stack |-> unshifted, nextIndex |-> next + added]

\* processStack, second block: the effect of an instruction on the stack.
applyInstruction(instruction, original, currentStack, next) ==
  LET swapIndex == instruction.code - Instruction("SWAP1").code + 1
      swaps == isSwap(instruction)
               /\ ~(original.kind = "RelativeStackReference" /\ original.class = "HotSwap")
      swapped == IF swaps /\ swapIndex < Len(currentStack)
                 THEN [currentStack EXCEPT ![1] = currentStack[swapIndex + 1],
                                           ![swapIndex + 1] = currentStack[1]]
                 ELSE currentStack
      removed == instruction.stackRemoved
      added == instruction.stackAdded
      shifted == SubSeq(swapped, Min(removed, Len(swapped)) + 1, Len(swapped))
      unshifted == [i \in 1..added |-> next + added - i] \o shifted
  IN IF swaps /\ swapIndex >= Len(currentStack)
     THEN [error |-> "Cannot execute SWAP" \o ToString(swapIndex)
                     \o ": swap index out of range",
           stack |-> currentStack, nextIndex |-> next]
     ELSE [error |-> NoError, stack |-> unshifted, nextIndex |-> next + added]

\* processStack, third block: the Actions that end at this item.
RECURSIVE endActions(_, _, _, _)
endActions(ending, currentActionStack, currentStack, history) ==
  IF ending = <<>>
  THEN [error |-> NoError, actionStack |-> currentActionStack, stackHistory |-> history]
  ELSE IF currentActionStack = <<>>
          \/ currentActionStack[Len(currentActionStack)] # Head(ending)
  THEN [error |-> "Error processing stack; unexpected action ending.",
        actionStack |-> currentActionStack, stackHistory |-> history]
  ELSE endActions(Tail(ending),
                  SubSeq(currentActionStack, 1, Len(currentActionStack) - 1),
                  currentStack,
                  [id \in DOMAIN history \cup {Head(ending)} |->
                     IF id = Head(ending) THEN currentStack ELSE history[id]])

\* One call of the callback of this.intermediate.map() in processStack.
ProcessStackStep ==
  /\ pc = "processStack"
  /\ itemIndex < Len(intermediate)
  /\ LET actionStack1 == actionStack \o At(actionStartIndeces, itemIndex)
         currentAction == actionStack1[Len(actionStack1)]
         original == intermediate[itemIndex + 1]
         lowered == IF original.kind = "RelativeStackReference"
                    THEN lowerReference(actions, original, currentAction, stack, stackHistory)
                    ELSE [error |-> NoError, item |-> original]
         item == lowered.item
         applied == IF lowered.error = NoError /\ item.kind = "Instruction"
                    THEN applyInstruction(item, original, stack, nextIndex)
                    ELSE [error |-> lowered.error, stack |-> stack, nextIndex |-> nextIndex]
         ended == IF applied.error = NoError
                  THEN endActions(At(actionEndIndeces, itemIndex), actionStack1,
                                  applied.stack, stackHistory)
                  ELSE [error |-> applied.error, actionStack |-> actionStack1,
                        stackHistory |-> stackHistory]
     IN IF ended.error # NoError
        THEN /\ pc' = "error"
             /\ error' = ended.error
             /\ UNCHANGED <<intermediate, stack, actionStack, stackHistory, itemIndex,
                            nextIndex>>
        ELSE /\ intermediate' = [intermediate EXCEPT ![itemIndex + 1] = item]
             /\ stack' = applied.stack
             /\ nextIndex' = applied.nextIndex
             /\ actionStack' = ended.actionStack
             /\ stackHistory' = ended.stackHistory
             /\ itemIndex' = itemIndex + 1
             /\ pc' = IF itemIndex + 1 = Len(intermediate)
                      THEN "processByteLengths" ELSE "processStack"
             /\ error' = error
  /\ UNCHANGED <<scriptVars, actionStartIndeces, actionEndIndeces, bytesPerInstruction,
                 totalBytesAtInstruction, jumpDestinations, output, hx>>

RECURSIVE RunningSum(_, _)
RunningSum(lengths, sum) ==
  IF lengths = <<>> THEN <<>>
  ELSE <<sum + Head(lengths)>> \o RunningSum(Tail(lengths), sum + Head(lengths))

ProcessByteLengths ==
  /\ pc = "processByteLengths"
  /\ IF \E i \in 1..Len(intermediate) : byteLengthThrows(intermediate[i])
     THEN /\ pc' = "error"
          /\ error' = "Unknown input to byteLength()"
          /\ UNCHANGED <<bytesPerInstruction, totalBytesAtInstruction>>
     ELSE LET lengths == [i \in 1..Len(intermediate) |-> byteLength(intermediate[i])]
          IN /\ bytesPerInstruction' = lengths
             /\ totalBytesAtInstruction' = RunningSum(lengths, 0)
             /\ pc' = "processJumpDestinations"
             /\ error' = error
  /\ UNCHANGED <<scriptVars, intermediate, actionStartIndeces, actionEndIndeces, stack,
                 actionStack, stackHistory, itemIndex, nextIndex, jumpDestinations,
                 output, hx>>

\* The ids of the Actions that were flattened.
StartedActions ==
  UNION {{At(actionStartIndeces, index)[k] : k \in 1..Len(At(actionStartIndeces, index))} :
           index \in 0..(Len(actionStartIndeces) - 1)}

\* The index at which Action id starts.
StartIndexOf(id) ==
  CHOOSE index \in 0..(Len(actionStartIndeces) - 1) :
    \E k \in 1..Len(At(actionStartIndeces, index)) : At(actionStartIndeces, index)[k] = id

\* The offset without the subtraction: the offset at which the first item ends.
jumpDestinationAfter(firstInstructionIndex) ==
  totalBytesAtInstruction[firstInstructionIndex + 1]

jumpDestinationOf(firstInstructionIndex) ==
  totalBytesAtInstruction[firstInstructionIndex + 1]
    - bytesPerInstruction[firstInstructionIndex + 1]

ProcessJumpDestinations ==
  /\ pc = "processJumpDestinations"
  /\ jumpDestinations' = [id \in StartedActions |-> jumpDestinationOf(StartIndexOf(id))]
  /\ pc' = "toHex"
  /\ UNCHANGED <<scriptVars, error, intermediate, actionStartIndeces, actionEndIndeces,
                 stack, actionStack, stackHistory, itemIndex, nextIndex,
                 bytesPerInstruction, totalBytesAtInstruction, output, hx>>

\* The bytecode strings of toHex(), each padded to a full byte, joined.
toHexOutput(items, executedCodeContext, codeLocations) ==
  Join([i \in 1..Len(items) |->
          leftPad(translateToBytecode(items[i], executedCodeContext, codeLocations), 1)])

ToHex ==
  /\ pc = "toHex"
  /\ IF \E i \in 1..Len(intermediate) :
          toHexThrows(intermediate[i], codeContext, jumpDestinations)
     THEN /\ pc' = "error"
          /\ error' = "toHex() threw"
          /\ output' = output
     ELSE LET joined == toHexOutput(intermediate, codeContext, jumpDestinations)
          IN IF Len(joined) % 2 # 0
             THEN /\ pc' = "error"
                  /\ error' = "CRITICAL FAILURE: Final value has odd byte offset!"
                  /\ output' = output
             ELSE /\ pc' = "done"
                  /\ output' = <<"0", "x">> \o ToUpperCase(joined)
                  /\ error' = error
  /\ UNCHANGED <<scriptVars, intermediate, actionStartIndeces, actionEndIndeces, stack,
                 actionStack, stackHistory, itemIndex, nextIndex, bytesPerInstruction,
                 totalBytesAtInstruction, jumpDestinations, hx>>

Pipeline ==
  \/ FinishScript
  \/ ProcessActions
  \/ ProcessStackStep
  \/ ProcessByteLengths
  \/ ProcessJumpDestinations
  \/ ToHex

\* new ActionProcessor(...) before processAll() runs.
FreshProcessor ==
  /\ intermediate = <<>>
  /\ actionStartIndeces = <<>>
  /\ actionEndIndeces = <<>>
  /\ stack = <<>>
  /\ actionStack = <<>>
  /\ stackHistory = <<>>
  /\ itemIndex = 0
  /\ nextIndex = 0
  /\ bytesPerInstruction = <<>>
  /\ totalBytesAtInstruction = <<>>
  /\ output = <<>>

InitProcessor ==
  /\ pc = "script"
  /\ error = NoError
  /\ FreshProcessor
  /\ jumpDestinations = <<>>

\* The script's state is S.
InitScript(S) ==
  /\ actions = S.actions
  /\ rtActions = S.rtActions
  /\ rtTailActions = S.rtTailActions
  /\ codeContext = S.codeContext
  /\ calls = S.calls

-----------------------------------------------------------------------------
(* Hexable values: the expression helpers ($ptr, $concat, $pad, $jumpmap, *)
(* $hex) and the constructors of grammar.ts build a value in `hx`, and the *)
(* emission of that value is compared with its byteLength().               *)

\* Nesting depth of the constructors applied to a value.
MaxDepth == 2

\* No value has been built yet.
NoItem == [kind |-> "none"]

\* The byte `b` repeated n times.
Bytes(n, b) == [i \in 1..n |-> b]

\* Literals: 0, one byte, two bytes, a byte with one hex digit, 31, 32 and 33 bytes.
LiteralValues ==
  {<<>>, <<1>>, <<171>>, <<17, 34>>, <<1, 0>>, Bytes(31, 171), Bytes(32, 171), Bytes(33, 171)}

NumberValues == {0, 1, 15, 16, 255, 256, 65535}

InstructionNames == {"STOP", "ADD", "PUSH1", "JUMPDEST", "SWAP16"}

\* Offsets an Action can start at, around the width of a pointer.
Offsets == {0, 10, 255, 256, 65535, 65536}

\* Number of names of a jump map.
JumpMapSizes == {0, 1, 15, 16, 17}

PadLengths == {1, 2, 4, 32}

RangeStarts == 0..3

RangeLengths == 1..3

\* The script of SpecHex: a = stop(); b = stop().
HexScript ==
  LET S1 == createActionHandler(EmptyScript,
              createDefaultAction(Heap(EmptyScript), "stop", Instruction("STOP"), <<>>, <<1, 1>>),
              "a", "stop", <<>>)
  IN createActionHandler(S1,
       createDefaultAction(Heap(S1), "stop", Instruction("STOP"), <<>>, <<2, 1>>),
       "b", "stop", <<>>)

HexUnchanged ==
  UNCHANGED <<scriptVars, intermediate, actionStartIndeces, actionEndIndeces, stack,
              actionStack, stackHistory, itemIndex, nextIndex, totalBytesAtInstruction,
              jumpDestinations>>

\* A constructor returned `item`.
Built(item) ==
  /\ hx' = [item |-> item, depth |-> IF hx = NoItem THEN 0 ELSE hx.depth + 1]
  /\ UNCHANGED <<pc, error, output, bytesPerInstruction>>
  /\ HexUnchanged

\* A constructor threw.
BuildFailed(message) ==
  /\ pc' = "error"
  /\ error' = message
  /\ UNCHANGED <<hx, output, bytesPerInstruction>>
  /\ HexUnchanged

CanStart == pc = "hex" /\ hx = NoItem

CanWrap == pc = "hex" /\ hx # NoItem /\ hx.depth < MaxDepth

HexNumber == CanStart /\ \E n \in NumberValues : Built(Number(n))

HexBigInt == CanStart /\ \E bytes \in LiteralValues : Built(Literal(bytes))

HexInstruction == CanStart /\ \E name \in InstructionNames : Built(Instruction(name))

\* $ptr(labelName)
HexLabelPointer == CanStart /\ \E labelName \in {"a", "b"} : Built(LabelPointer(labelName))

\* The pointer a helper call returned.
HexActionPointer == CanStart /\ \E id \in {0, 1} : Built(ActionPointer(id))

\* $jumpmap(...names)
HexJumpMap ==
  CanStart /\ \E n \in JumpMapSizes, labelName \in {"a", "b"} :
                Built(JumpMap([i \in 1..n |-> labelName]))

\* $concat(...args)
HexConcat ==
  \/ CanStart /\ Built(ConcatedHexValue(<<>>))
  \/ CanWrap /\ \E items \in {<<hx.item>>, <<hx.item, hx.item>>, <<Number(1), hx.item>>} :
                  Built(ConcatedHexValue(items))

HexByteRange ==
  CanWrap /\ \E start \in RangeStarts, length \in RangeLengths :
    IF ByteRangeThrows(hx.item, start)
    THEN BuildFailed("ByteRange start position longer than input.")
    ELSE Built(ByteRange(hx.item, start, length))

HexWordRange ==
  CanWrap /\ \E start \in 0..1, length \in 1..2 :
    IF WordRangeThrows(hx.item, start)
    THEN BuildFailed("WordRange start position longer than input.")
    ELSE Built(WordRange(hx.item, start, length))

\* $pad(input, lengthInBytes, side)
HexPadded ==
  CanWrap /\ \E lengthInBytes \in PadLengths, side \in {"left", "right"} :
    Built(Padded(hx.item, lengthInBytes, side))

HexSolidityString == CanWrap /\ Built(SolidityString(hx.item))

\* processByteLengths and toHex on the one value.
HexEmit ==
  /\ pc = "hex"
  /\ hx # NoItem
  /\ IF toHexThrows(hx.item, codeContext, jumpDestinations)
     THEN /\ pc' = "error"
          /\ error' = "toHex() threw"
          /\ UNCHANGED <<output, bytesPerInstruction>>
     ELSE /\ pc' = "emitted"
          /\ bytesPerInstruction' = <<byteLength(hx.item)>>
          /\ output' = translateToBytecode(hx.item, codeContext, jumpDestinations)
          /\ error' = error
  /\ hx' = hx
  /\ HexUnchanged

\* The script has run and a starts at offset k (k bytes were inserted before it).
InitHex ==
  /\ InitScript(HexScript)
  /\ pc = "hex"
  /\ error = NoError
  /\ FreshProcessor
  /\ \E k \in Offsets : jumpDestinations = [id \in {0, 1} |-> IF id = 0 THEN k ELSE k + 2]
  /\ hx = NoItem

NextHex ==
  \/ HexNumber
  \/ HexBigInt
  \/ HexInstruction
  \/ HexLabelPointer
  \/ HexActionPointer
  \/ HexJumpMap
  \/ HexConcat
  \/ HexByteRange
  \/ HexWordRange
  \/ HexPadded
  \/ HexSolidityString
  \/ HexEmit

SpecHex == InitHex /\ [][NextHex]_vars

\* C2: every Hexable value that reaches emission is emitted as exactly
\* 2 * byteLength() hex digits, whatever the inner length, the pad length and the
\* start of a slice (here with every Action at an offset below 2^16).
C2_EmittedLengthIsTwiceByteLength ==
  (pc = "emitted" /\ \A id \in DOMAIN jumpDestinations : jumpDestinations[id] < 2^16)
    => Len(output) = 2 * bytesPerInstruction[1]

\* C4: every ActionPointer and LabelPointer is emitted as exactly 2 bytes, also when
\* the Action it names starts at an offset of 2^16 or more.
C4_PointerIsTwoBytes ==
  (pc = "emitted" /\ hx.item.kind \in {"ActionPointer", "LabelPointer"})
    => Len(output) = 2 * POINTER_BYTE_LENGTH

-----------------------------------------------------------------------------
(* The script: a bounded sequence of helper calls with inputs drawn from   *)
(* small sets.  A profile P names the sets one specification draws from.   *)

\* Helper calls the script makes after the initial state.
MaxCalls == 2

\* The Actions whose pointer the script holds: what the handlers returned.
Last == rtActions[Len(rtActions)]

\* [$x, $y] = helper(): the stack references a script can take from the first and
\* from the latest pointer it holds.
ScriptReferences ==
  IF rtActions = <<>> THEN {}
  ELSE {RelativeStackReference("Raw", rtActions[1], 0),
        RelativeStackReference("Raw", Last, 0)}

ScriptPointers == IF rtActions = <<>> THEN {} ELSE {ActionPointer(Last)}

Arguments(P) ==
  P.scalars \cup (IF P.references THEN ScriptReferences ELSE {}) \cup ScriptPointers

CanCall == pc = "script" /\ Len(calls) < MaxCalls

\* push(v)
CallPush(P) ==
  /\ CanCall
  /\ \E v \in P.pushed, label \in P.labels, pos \in P.positions :
       Evaluate(createActionHandler(Script, push(Heap(Script), v, pos), label,
                                    "push", <<v>>))

\* A helper made by createDefaultAction: op(a1, ..., an)
CallDefault(P) ==
  /\ CanCall
  /\ \E op \in P.ops, label \in P.labels, pos \in P.positions :
       \E args \in [1..op[2] -> Arguments(P)] :
         Evaluate(createActionHandler(Script,
                    createDefaultAction(Heap(Script), op[1], Instruction(op[3]), args, pos),
                    label, op[1], args))

\* set(ref) and set(ref, v)
CallSet(P) ==
  /\ CanCall
  /\ \E ref \in ScriptReferences, label \in P.labels, pos \in P.positions :
       \E rest \in {<<>>} \cup {<<v>> : v \in Arguments(P)} :
         Evaluate(createActionHandler(Script, set(Heap(Script), <<ref>> \o rest, pos),
                                      label, "set", <<ref>> \o rest))

\* dup(ref)
CallDup(P) ==
  /\ CanCall
  /\ \E ref \in ScriptReferences, label \in P.labels, pos \in P.positions :
       Evaluate(createActionHandler(Script, dup(Heap(Script), ref, pos), label,
                                    "dup", <<ref>>))

\* A script that starts with n statements push(1), one per line; `calls` holds the
\* calls that follow them.
RECURSIVE Prelude(_)
Prelude(n) ==
  IF n = 0 THEN EmptyScript
  ELSE LET S == Prelude(n - 1)
       IN [createActionHandler(S, push(Heap(S), Number(1), <<n, 1>>), NoLabel,
                               "push", <<Number(1)>>)
             EXCEPT !.calls = <<>>]

-----------------------------------------------------------------------------
(* Spec: stack references.  The script starts with 0 or MaxPrelude pushes, *)
(* so that a reference can be up to 17 slots deep when it is lowered.      *)

MaxPrelude == 16

\* The line of the calls that follow the prelude.
CallLine == 20

StackProfile ==
  [scalars |-> {Number(2)},
   pushed |-> {Number(1)},
   references |-> TRUE,
   labels |-> {NoLabel},
   positions |-> {<<CallLine, 1>>, <<CallLine, 5>>},
   ops |-> {<<"add", 2, "ADD">>, <<"pop", 0, "POP">>}]

Init ==
  /\ \E n \in {0, MaxPrelude} : InitScript(Prelude(n))
  /\ InitProcessor
  /\ hx = NoItem

Next ==
  \/ CallPush(StackProfile)
  \/ CallDefault(StackProfile)
  \/ CallSet(StackProfile)
  \/ CallDup(StackProfile)
  \/ Pipeline

Spec == Init /\ [][Next]_vars

-----------------------------------------------------------------------------
(* Stack references: what processStack does with the item it is about to   *)
(* process, stated on the symbolic stack of that moment.                   *)

\* The item processStack processes next.
CurrentItem == intermediate[itemIndex + 1]

\* The Action that item belongs to: the innermost Action that has started and not ended.
EnclosingAction ==
  LET started == actionStack \o At(actionStartIndeces, itemIndex)
  IN actions[started[Len(started)] + 1]

\* processStack is about to process a stack reference of one of the classes.
AtReference(classes) ==
  /\ pc = "processStack"
  /\ itemIndex < Len(intermediate)
  /\ CurrentItem.kind = "RelativeStackReference"
  /\ CurrentItem.class \in classes

\* The real slot of the reference is the entry at index d of the symbolic stack.
SlotAt(ref, d) ==
  /\ ref.action \in DOMAIN stackHistory
  /\ ref.index + 1 \in DOMAIN stackHistory[ref.action]
  /\ d + 1 \in DOMAIN stack
  /\ stack[d + 1] = stackHistory[ref.action][ref.index + 1]

Depths == 0..(MaxPrelude + MaxCalls + 1)

\* The step failed with `message` and nothing was emitted.
FailsWith(message) == pc' = "error" /\ error' = message /\ output' = <<>>

\* C5: a DupStackReference whose real slot is at index d of the symbolic stack when it
\* is processed is replaced by DUP(d+1) when d <= 15, and the compile fails with the
\* "too deep; cannot use DUP" error when d >= 16.
C5_DupReferenceBecomesDup ==
  [][\A d \in Depths :
       (AtReference({"Dup"}) /\ SlotAt(CurrentItem, d)) =>
         IF d <= 15
         THEN /\ pc' # "error"
              /\ intermediate'[itemIndex + 1].kind = "Instruction"
              /\ intermediate'[itemIndex + 1].name = "DUP" \o ToString(d + 1)
              /\ intermediate'[itemIndex + 1].code = 127 + d + 1
         ELSE FailsWith(InActionPrefix(EnclosingAction)
                        \o TooDeepMessage(actions[CurrentItem.action + 1].name, "DUP"))]_vars

\* A reference 15 slots deep has been lowered to DUP16, and a later reference of the
\* same call, one slot deeper because of it, has failed.
C5_Witness ==
  /\ pc = "error"
  /\ itemIndex > 0
  /\ intermediate[itemIndex] = Instruction("DUP16")
  /\ CurrentItem.kind = "RelativeStackReference"
  /\ CurrentItem.class = "Dup"
  /\ SlotAt(CurrentItem, 16)

\* C6: set(ref, v?) lowers ref to SWAP(d), d the depth of the real slot of ref when the
\* reference is processed (after v was pushed); for 1 <= d <= 16 the step succeeds with
\* SWAP(d) followed by POP, for d = 0 and d > 16 the compile fails.
C6_SetReferenceBecomesSwap ==
  [][\A d \in Depths :
       (AtReference({"HotSwap"}) /\ SlotAt(CurrentItem, d)) =>
         IF d >= 1 /\ d <= 16
         THEN /\ pc' # "error"
              /\ intermediate'[itemIndex + 1].kind = "Instruction"
              /\ intermediate'[itemIndex + 1].name = "SWAP" \o ToString(d)
              /\ intermediate'[itemIndex + 1].code = 143 + d
              /\ intermediate'[itemIndex + 2] = Instruction("POP")
         ELSE FailsWith(InActionPrefix(EnclosingAction)
                        \o TooDeepMessage(actions[CurrentItem.action + 1].name, "SWAP"))]_vars

\* A set(ref, v) whose slot was 16 deep after v was pushed has been lowered to SWAP16, POP.
C6_Witness ==
  /\ pc = "done"
  /\ \E i \in 3..(Len(intermediate) - 1) :
       /\ intermediate[i - 2] = Instruction("PUSH1")
       /\ intermediate[i] = Instruction("SWAP16")
       /\ intermediate[i + 1] = Instruction("POP")

\* The top-level Actions in the order they are flattened.
Flattened == TopLevelActions(actions, rtActions, rtTailActions)

\* Action `a` is a set(ref, v) with a scalar v: the push of v, the reference, POP.
IsSetWithScalar(a) ==
  /\ a.name = "set"
  /\ Len(a.intermediate) = 3
  /\ a.intermediate[1].kind = "Action"
  /\ actions[a.intermediate[1].id + 1].name = "push"
  /\ actions[a.intermediate[1].id + 1].intermediate[2].kind = "number"

\* Action `a` is a set(ref): the reference, POP.
IsSetWithoutValue(a) == a.name = "set" /\ Len(a.intermediate) = 2

\* The symbolic stack when the j-th top-level Action starts: the snapshot taken when
\* the one before it ended.
StackBefore(j) == IF j = 1 THEN <<>> ELSE stackHistory[Flattened[j - 1]]

\* C7: processing set(ref, v) with a scalar v leaves the symbolic stack exactly as it
\* was before the call; set(ref) removes the top entry and nothing else.
C7_SetLeavesStack ==
  \A j \in 1..Len(Flattened) :
    LET id == Flattened[j]
    IN (pc # "script" /\ id \in DOMAIN stackHistory) =>
         /\ IsSetWithScalar(actions[id + 1]) => stackHistory[id] = StackBefore(j)
         /\ IsSetWithoutValue(actions[id + 1]) =>
              /\ StackBefore(j) # <<>>
              /\ stackHistory[id] = Tail(StackBefore(j))

\* A set(ref, v) and a set(ref) have both been processed on a stack of several entries.
C7_Witness ==
  /\ pc = "done"
  /\ Len(Flattened) >= 2
  /\ IsSetWithScalar(actions[Flattened[Len(Flattened) - 1] + 1])
  /\ IsSetWithoutValue(actions[Flattened[Len(Flattened)] + 1])
  /\ Len(stackHistory[Flattened[Len(Flattened)]]) >= 2

\* The real slot of the reference is somewhere on the symbolic stack.
SlotOnStack(ref) == \E d \in Depths : SlotAt(ref, d)

\* C8: a stack reference whose slot is not on the symbolic stack when it is processed
\* (consumed, or its owning Action has not ended yet) fails the compile with the "stack
\* slot referenced in call to F() won't exist on the stack during runtime" error of the
\* enclosing helper F, and with no other failure and no output.
C8_MissingSlotFailsWithWontExist ==
  [][(AtReference({"Dup", "HotSwap"}) /\ ~SlotOnStack(CurrentItem)) =>
       FailsWith(WontExistMessage(EnclosingAction.name))]_vars

-----------------------------------------------------------------------------
(* SpecCompose: composition of helper calls.  The script is empty at first; *)
(* calls may be labelled and sit at positions before, at and after each     *)
(* other, and take scalars, stack references and pointers to earlier calls. *)

ComposeProfile ==
  [scalars |-> {Number(2)},
   pushed |-> {Number(1)},
   references |-> TRUE,
   labels |-> {NoLabel, "a"},
   positions |-> {<<CallLine, 1>>, <<CallLine, 5>>, <<CallLine + 1, 1>>},
   ops |-> {<<"add", 2, "ADD">>, <<"jump", 1, "JUMP">>, <<"stop", 0, "STOP">>}]

InitCompose ==
  /\ InitScript(EmptyScript)
  /\ InitProcessor
  /\ hx = NoItem

NextCompose ==
  \/ CallPush(ComposeProfile)
  \/ CallDefault(ComposeProfile)
  \/ Pipeline

SpecCompose == InitCompose /\ [][NextCompose]_vars

\* The captured source position of an Action.
PositionOf(id) == <<actions[id + 1].line, actions[id + 1].column>>

\* Position p is before position q in the text.
Before(p, q) == p[1] < q[1] \/ (p[1] = q[1] /\ p[2] < q[2])

\* The Actions the handlers returned: the results a script can pass on.
Returned == {rtActions[i] : i \in 1..Len(rtActions)}

\* Action `child` was adopted: it has a parent and is inlined in the parent's IR.
Adopted(child) ==
  /\ actions[child + 1].parentAction # NoAction
  /\ \E i \in 1..Len(actions[actions[child + 1].parentAction + 1].intermediate) :
       actions[actions[child + 1].parentAction + 1].intermediate[i] = ActionItem(child)

\* The ids of the Actions that push a pointer to `target` for the parent that received
\* the pointer as an argument.
PointerPushes(target) ==
  {id \in 0..(Len(actions) - 1) :
     /\ actions[id + 1].name = "push"
     /\ actions[id + 1].parentAction # NoAction
     /\ Len(actions[id + 1].intermediate) = 2
     /\ actions[id + 1].intermediate[2] = ActionPointer(target)}

CallOf(id) == CHOOSE k \in 1..Len(calls) : calls[k].id = id

\* The call's result is bound to a name that makes it a jump destination: the call is
\* labelled with a name not starting with "_" and no later call takes the name.
IsLabelled(k) ==
  /\ calls[k].label \notin UnderscoreNames \cup {NoLabel}
  /\ \A j \in (k + 1)..Len(calls) : calls[j].label # calls[k].label

OpcodeOf(helper) ==
  LET op == CHOOSE op \in ComposeProfile.ops : op[1] = helper IN Instruction(op[3])

RECURSIVE ExpectedIR(_)
RECURSIVE ExpectedArguments(_, _)

\* What a call is expected to emit for one argument: a DUP reference for a stack
\* reference, the whole IR of an inline call it adopted, a PUSH of anything else.
ExpectedArgument(k, arg) ==
  CASE arg.kind = "RelativeStackReference" ->
         <<RelativeStackReference("Dup", arg.action, arg.index)>>
    [] arg.kind = "ActionPointer" /\ actions[arg.action + 1].parentAction = calls[k].id ->
         ExpectedIR(CallOf(arg.action))
    [] OTHER -> <<Instruction("PUSH" \o ToString(byteLength(arg))), arg>>

\* The code for the arguments a_n, ..., a_1 of call k, in that order.
ExpectedArguments(k, n) ==
  IF n = 0 THEN <<>>
  ELSE ExpectedArgument(k, calls[k].args[n]) \o ExpectedArguments(k, n - 1)

\* The sequence call k is expected to contribute to the flattened program.
ExpectedIR(k) ==
  (IF IsLabelled(k) THEN <<Instruction("JUMPDEST")>> ELSE <<>>)
  \o (IF calls[k].helper = "push"
      THEN <<Instruction("PUSH" \o ToString(byteLength(calls[k].args[1]))), calls[k].args[1]>>
      ELSE ExpectedArguments(k, Len(calls[k].args)) \o <<OpcodeOf(calls[k].helper)>>)

\* The expected program: the calls that no other call adopted, in the order of the calls.
RECURSIVE ExpectedProgram(_)
ExpectedProgram(k) ==
  IF k > Len(calls) THEN <<>>
  ELSE (IF actions[calls[k].id + 1].parentAction = NoAction THEN ExpectedIR(k) ELSE <<>>)
       \o ExpectedProgram(k + 1)

\* The item at index i (from 1) of the program is the expected one; a stack reference
\* that processStack has passed has become a DUP.
MatchesExpected(i, expected) ==
  \/ intermediate[i] = expected
  \/ /\ expected.kind = "RelativeStackReference"
     /\ i <= itemIndex
     /\ intermediate[i].kind = "Instruction"
     /\ intermediate[i].code >= 128
     /\ intermediate[i].code <= 143

\* The number of places at which Action id starts in the flattened program.
StartsOf(id) ==
  Cardinality({<<index, n>> \in (0..Len(actionStartIndeces)) \X (1..Len(actions)) :
                 n <= Len(At(actionStartIndeces, index))
                 /\ At(actionStartIndeces, index)[n] = id})

Flattening == {"processStack", "processByteLengths", "processJumpDestinations", "toHex", "done"}

\* C10: the flattened program is, call by call, the JUMPDEST of the call if it is a
\* jump destination, then the code for the arguments a_n, ..., a_1 in that order (a
\* scalar as a PUSH, a stack reference as a DUP, an inline call as its whole IR, the
\* JUMPDEST of the parent before it), then the opcode; and the IR of every Action
\* appears exactly once.
C10_DefaultHelperOrder ==
  pc \in Flattening =>
    /\ Len(intermediate) = Len(ExpectedProgram(1))
    /\ \A i \in 1..Len(intermediate) : MatchesExpected(i, ExpectedProgram(1)[i])
    /\ \A k \in 1..Len(calls) : StartsOf(calls[k].id) = 1

\* A compiled program with a labelled call add(2, push(1)) that adopted the inline push:
\* JUMPDEST, the IR of the push, PUSH1 2, ADD.
C10_Witness ==
  /\ pc = "done"
  /\ \E k \in 1..Len(calls) :
       /\ calls[k].helper = "add"
       /\ IsLabelled(k)
       /\ calls[k].args[1] = Number(2)
       /\ calls[k].args[2].kind = "ActionPointer"
       /\ actions[calls[k].args[2].action + 1].parentAction = calls[k].id
  /\ intermediate = <<Instruction("JUMPDEST"), Instruction("PUSH1"), Number(1),
                      Instruction("PUSH1"), Number(2), Instruction("ADD")>>

-----------------------------------------------------------------------------
(* SpecPush: push(v) over literals of 0 to 33 bytes and Hexable values.    *)

PushValues ==
  {Number(n) : n \in {0, 1, 255, 256}}
  \cup {Literal(bytes) : bytes \in LiteralValues}
  \cup {ConcatedHexValue(<<>>),
        ConcatedHexValue(<<Literal(<<17>>), Literal(<<34, 51>>)>>),
        ConcatedHexValue(<<Literal(Bytes(32, 171)), Number(1)>>),
        Padded(Number(1), 4, "left"),
        Padded(Number(1), 4, "right"),
        Padded(Literal(<<17, 34>>), 2, "left"),
        Padded(Literal(Bytes(33, 171)), 2, "left"),
        ByteRange(Literal(<<17, 34, 51>>), 1, 2),
        Instruction("ADD")}

PushProfile ==
  [scalars |-> {},
   pushed |-> PushValues,
   references |-> FALSE,
   labels |-> {NoLabel},
   positions |-> {<<CallLine, 1>>},
   ops |-> {}]

InitPush ==
  /\ InitScript(EmptyScript)
  /\ InitProcessor
  /\ hx = NoItem

NextPush ==
  \/ CallPush(PushProfile)
  \/ Pipeline

SpecPush == InitPush /\ [][NextPush]_vars

\* The big-endian bytes of v as hex digits: for a number or a bigint every byte of the
\* value, one zero byte for 0; for a Hexable value what it emits.
BigEndianHex(v) ==
  CASE v.kind = "bigint" -> IF v.value = <<>> THEN <<"0", "0">>
                            ELSE ToUpperCase(BytesToHex(v.value))
    [] v.kind = "number" -> IF v.value = 0 THEN <<"0", "0">>
                            ELSE ToUpperCase(BytesToHex(BigInt(v.value)))
    [] OTHER -> translateToBytecode(v, codeContext, jumpDestinations)

\* What push(v) is expected to emit: the opcode 0x5F + n, then the n bytes of v.
ExpectedPush(v) == ToUpperCase(ByteToHex(95 + byteLength(v))) \o BigEndianHex(v)

RECURSIVE ExpectedPushes(_)
ExpectedPushes(k) ==
  IF k > Len(calls) THEN <<>> ELSE ExpectedPush(calls[k].args[1]) \o ExpectedPushes(k + 1)

\* push() accepts the byte length of v.
Pushable(v) == byteLength(v) >= 1 /\ byteLength(v) <= 32

\* C3: push(v) succeeds exactly when 1 <= byteLength(v) <= 32, and then emits the
\* opcode byte 0x5F + n followed by exactly n data bytes, the big-endian encoding of
\* v, n = byteLength(v); for a longer v the call fails, and a failed compile emits
\* nothing.
C3_PushEmitsOpcodeAndBytes ==
  /\ pc = "done" =>
       /\ \A k \in 1..Len(calls) :
            /\ Pushable(calls[k].args[1])
            /\ Len(BigEndianHex(calls[k].args[1])) = 2 * byteLength(calls[k].args[1])
       /\ output = <<"0", "x">> \o ExpectedPushes(1)
  /\ (pc = "error" /\ calls # <<>>) =>
       /\ output = <<>>
       /\ \E k \in 1..Len(calls) : ~Pushable(calls[k].args[1])
  /\ (\E k \in 1..Len(calls) : byteLength(calls[k].args[1]) > 32) => pc = "error"

-----------------------------------------------------------------------------
(* SpecPtr: labels and pointers.  Values of several lengths are pushed,    *)
(* calls are labelled, and jump() takes $ptr("a") before or after the      *)
(* label is bound, or the pointer a call returned.                         *)

PtrProfile ==
  [scalars |-> {LabelPointer("a")},
   pushed |-> {Number(1), Literal(<<17, 34>>), Padded(Literal(<<17, 34>>), 2, "left")},
   references |-> FALSE,
   labels |-> {NoLabel, "a"},
   positions |-> {<<CallLine, 1>>, <<CallLine + 1, 1>>},
   ops |-> {<<"jump", 1, "JUMP">>, <<"stop", 0, "STOP">>}]

InitPtr ==
  /\ InitScript(EmptyScript)
  /\ InitProcessor
  /\ hx = NoItem

NextPtr ==
  \/ CallPush(PtrProfile)
  \/ CallDefault(PtrProfile)
  \/ Pipeline

SpecPtr == InitPtr /\ [][NextPtr]_vars

\* The value of one upper-case hex digit.
DigitValue(c) == CHOOSE d \in 0..15 : ToUpperChar(HexDigits[d + 1]) = c

\* The number a string of hex digits denotes.
RECURSIVE HexValue(_)
HexValue(str) ==
  IF str = <<>> THEN 0
  ELSE 16 * HexValue(SubSeq(str, 1, Len(str) - 1)) + DigitValue(str[Len(str)])

\* The hex digits emitted for the item at index i (from 1) of the program.
EmittedAt(i) == translateToBytecode(intermediate[i], codeContext, jumpDestinations)

\* The number of bytes actually emitted for the items before index i (from 1).
RECURSIVE BytesEmittedBefore(_)
BytesEmittedBefore(i) ==
  IF i <= 1 THEN 0 ELSE BytesEmittedBefore(i - 1) + (Len(EmittedAt(i - 1)) \div 2)

\* The Action a pointer names.
PointedAction(item) ==
  IF item.kind = "LabelPointer" THEN codeContext[item.labelName] ELSE item.action

\* C1: in a compiled program the offset recorded for every Action, and emitted by
\* every ActionPointer and LabelPointer that names it, is the number of bytes actually
\* emitted before the first byte of the Action (its JUMPDEST if it has one), whether
\* the pointer stands before or after the Action.
C1_OffsetIsBytesEmittedBefore ==
  pc = "done" =>
    /\ \A id \in DOMAIN jumpDestinations :
         jumpDestinations[id] = BytesEmittedBefore(StartIndexOf(id) + 1)
    /\ \A i \in 1..Len(intermediate) :
         intermediate[i].kind \in {"ActionPointer", "LabelPointer"} =>
           /\ Len(EmittedAt(i)) = 2 * POINTER_BYTE_LENGTH
           /\ HexValue(EmittedAt(i))
                = BytesEmittedBefore(StartIndexOf(PointedAction(intermediate[i])) + 1)

-----------------------------------------------------------------------------
(* SpecLabel: labels.  Calls are bound to names that do and do not start   *)
(* with "_", names are assigned again (to a pointer another name holds, or *)
(* to a value that is no pointer), and assertNonPayable() and jumpdest()   *)
(* bring jump destinations of their own.                                   *)

LabelProfile ==
  [scalars |-> {Number(2)},
   pushed |-> {Number(1)},
   references |-> FALSE,
   labels |-> {NoLabel, "a", "_c"},
   positions |-> {<<CallLine, 1>>, <<CallLine, 5>>},
   ops |-> {<<"jump", 1, "JUMP">>, <<"jumpdest", 0, "JUMPDEST">>}]

\* assertNonPayable() and assertNonPayable(v)
CallAssertNonPayable(P) ==
  /\ CanCall
  /\ \E input \in {Undefined} \cup P.scalars, label \in P.labels, pos \in P.positions :
       Evaluate(createActionHandler(Script, assertNonPayable(Heap(Script), input, pos),
                                    label, "assertNonPayable", <<input>>))

\* b = other and _c = other (the pointer another name holds), b = 0 and _c = 0 (no
\* pointer).
Assign ==
  /\ pc = "script"
  /\ \E name \in {"b", "_c"}, value \in {NoAction} \cup {codeContext[n] : n \in LabelNames} :
       /\ codeContext[name] # value
       /\ codeContext' = [codeContext EXCEPT ![name] = value]
  /\ UNCHANGED <<actions, rtActions, rtTailActions, calls, pc, error, procVars, hx>>

InitLabel ==
  /\ InitScript(EmptyScript)
  /\ InitProcessor
  /\ hx = NoItem

NextLabel ==
  \/ CallPush(LabelProfile)
  \/ CallDefault(LabelProfile)
  \/ CallAssertNonPayable(LabelProfile)
  \/ Assign
  \/ Pipeline

SpecLabel == InitLabel /\ [][NextLabel]_vars

\* The script has been evaluated and preprocess() has walked the names.
Evaluated ==
  pc \in {"processActions", "processStack", "processByteLengths",
          "processJumpDestinations", "toHex", "done"}

\* The names that hold a pointer to Action id.
NamesOf(id) == {key \in DOMAIN codeContext : codeContext[key] = id}

OutputByte(k) ==
  IF 4 + (2 * k) <= Len(output) THEN SubSeq(output, 3 + (2 * k), 4 + (2 * k)) ELSE <<>>

\* Action id starts with 0x5B in the output.
StartsWithJumpdestByte(id) == OutputByte(jumpDestinations[id]) = <<"5", "B">>

UpperHexDigits ==
  {"0", "1", "2", "3", "4", "5", "6", "7", "8", "9", "A", "B", "C", "D", "E", "F"}

C14_EmptyProgramYieldsPrefix ==
  calls = <<>> =>
    /\ pc # "error"
    /\ pc = "done" => output = <<"0", "x">>

-----------------------------------------------------------------------------
(* SpecPushN: push1() ... push32() over the values of SpecPush.            *)

\* The N of the pushN helpers the script calls.
PushWidths == {1, 2, 3, 4, 32}

\* pushN(v)
CallSpecificPush(P) ==
  /\ CanCall
  /\ \E n \in PushWidths, v \in P.pushed, label \in P.labels, pos \in P.positions :
       Evaluate(createActionHandler(Script, specificPush(Heap(Script), n, v, pos), label,
                                    "push" \o ToString(n), <<v>>))

InitPushN ==
  /\ InitScript(EmptyScript)
  /\ InitProcessor
  /\ hx = NoItem

NextPushN ==
  \/ CallSpecificPush(PushProfile)
  \/ Pipeline

SpecPushN == InitPushN /\ [][NextPushN]_vars

\* The N of call k.
WidthOf(k) == CHOOSE n \in PushWidths : calls[k].helper = "push" \o ToString(n)

\* The offset at which call k starts when every call before it emitted an opcode and
\* N bytes.
RECURSIVE OffsetOfCall(_)
OffsetOfCall(k) == IF k <= 1 THEN 0 ELSE OffsetOfCall(k - 1) + 1 + WidthOf(k - 1)

\* C15: pushN(v) succeeds if and only if byte_length(v) = N, and then emits the opcode
\* 0x5F + N followed by exactly N data bytes; otherwise it fails with an error that
\* names pushN, the expected N and the received byte length.
C15_SpecificPushChecksAndEmitsNBytes ==
  /\ \A k \in 1..Len(calls) :
       LET failed == k = Len(calls) /\ pc = "error" /\ Len(rtActions) < Len(calls)
           length == byteLength(calls[k].args[1])
       IN /\ failed <=> length # WidthOf(k)
          /\ failed => error = WrongLengthMessage(WidthOf(k), length)
  /\ pc = "done" =>
       /\ Len(output) = 2 + (2 * OffsetOfCall(Len(calls) + 1))
       /\ \A k \in 1..Len(calls) :
            OutputByte(OffsetOfCall(k)) = ToUpperCase(ByteToHex(95 + WidthOf(k)))

-----------------------------------------------------------------------------
(* SpecResult: push(x) where x is what an earlier helper call returned.    *)

\* push(x), x the result of an earlier call
CallPushResult(P) ==
  /\ CanCall
  /\ \E id \in Returned, label \in P.labels, pos \in P.positions :
       Evaluate(createActionHandler(Script, push(Heap(Script), ActionPointer(id), pos),
                                    label, "push", <<ActionPointer(id)>>))

InitResult ==
  /\ InitScript(EmptyScript)
  /\ InitProcessor
  /\ hx = NoItem

NextResult ==
  \/ CallPush(ComposeProfile)
  \/ CallDefault(ComposeProfile)
  \/ CallPushResult(ComposeProfile)
  \/ Pipeline

SpecResult == InitResult /\ [][NextResult]_vars

\* Call k is push(x) with x the result of another helper call.
IsPushOfResult(k) ==
  /\ calls[k].helper = "push"
  /\ calls[k].args[1].kind = "ActionPointer"

\* C16: push(v) fails whenever v is the result of another action helper: the call
\* throws, returns no Action, and no PUSH instruction is emitted for v.
C16_PushOfResultFails ==
  \A k \in 1..Len(calls) :
    IsPushOfResult(k) =>
      /\ k = Len(calls)
      /\ pc = "error"
      /\ Len(rtActions) < Len(calls)

-----------------------------------------------------------------------------
(* Padded and JumpMap under SpecHex: the length against the rounded length *)

\* n rounded up to a multiple of unit.
RoundUp(n, unit) == ((n + unit - 1) \div unit) * unit

Zeros(n) == [i \in 1..n |-> "0"]

\* C17: byte_length(Padded(inner, len, side)) is the smallest multiple of len that is
\* >= byte_length(inner), so an inner value whose length is a multiple of len is not
\* lengthened, and the emitted bytes are the inner bytes with zero bytes prepended
\* (left) or appended (right) up to that length.
C17_PaddedRoundsUpToMultiple ==
  (pc = "emitted" /\ hx.item.kind = "Padded") =>
    LET inner == translateToBytecode(hx.item.item, codeContext, jumpDestinations)
        target == RoundUp(byteLength(hx.item.item), hx.item.lengthInBytes)
        zeros == Zeros((2 * target) - Len(inner))
    IN /\ bytesPerInstruction[1] = target
       /\ output = IF hx.item.side = "left" THEN zeros \o inner ELSE inner \o zeros

\* C18: for n >= 1 labels byte_length(JumpMap) is 2n rounded up to a multiple of 32
\* (32 for 16 labels), and the emitted bytes are the n two-byte offsets followed by
\* zero bytes up to that length.
C18_JumpMapRoundsUpToWord ==
  (pc = "emitted" /\ hx.item.kind = "JumpMap" /\ Len(hx.item.items.items) >= 1) =>
    LET pointers == hx.item.items.items
        n == Len(pointers)
        offsets == Join([i \in 1..n |->
                           translateToBytecode(pointers[i], codeContext, jumpDestinations)])
        target == RoundUp(2 * n, 32)
    IN /\ bytesPerInstruction[1] = target
       /\ Len(offsets) = 4 * n
       /\ output = offsets \o Zeros((2 * target) - Len(offsets))

-----------------------------------------------------------------------------
(* SpecAlloc: alloc(v, pushOffsets) over values of 1 to 65 bytes.          *)

AllocValues ==
  {Number(1), Literal(Bytes(31, 171)), Literal(Bytes(32, 171)), Literal(Bytes(33, 171)),
   Literal(Bytes(64, 171)), Literal(Bytes(65, 171)),
   ConcatedHexValue(<<Literal(Bytes(32, 171)), Number(1)>>),
   Padded(Literal(<<17, 34>>), 4, "left"),
   Padded(Literal(<<17, 34>>), 2, "left"),
   Padded(Literal(Bytes(32, 171)), 32, "left")}

Boolean(b) == [kind |-> "boolean", value |-> b]

\* alloc(v) and alloc(v, false)
CallAlloc ==
  /\ CanCall
  /\ \E v \in AllocValues, pushOffsets \in BOOLEAN :
       Evaluate(createActionHandler(Script,
                  alloc(Heap(Script), v, pushOffsets, <<CallLine + Len(calls), 1>>),
                  NoLabel, "alloc", <<v, Boolean(pushOffsets)>>))

InitAlloc ==
  /\ InitScript(EmptyScript)
  /\ InitProcessor
  /\ hx = NoItem

NextAlloc ==
  \/ CallAlloc
  \/ Pipeline

SpecAlloc == InitAlloc /\ [][NextAlloc]_vars

\* What the flattened program is to hold at one index: an opcode, a constant, or a
\* value that is emitted as n bytes.
Opcode(name) == [shape |-> "opcode", name |-> name]

Constant(n) == [shape |-> "constant", value |-> n]

Data(n) == [shape |-> "data", bytes |-> n]

\* The store group of word w of a value of L bytes: a full word is pushed as 32 bytes,
\* a last partial word of b bytes as b bytes and shifted left by (32 - b) * 8 bits;
\* then MSIZE, MSTORE.
StoreGroup(L, w) ==
  LET b == L - (32 * w)
  IN IF b >= 32
     THEN <<Opcode("PUSH32"), Data(32), Opcode("MSIZE"), Opcode("MSTORE")>>
     ELSE <<Opcode("PUSH" \o ToString(b)), Data(b), Opcode("PUSH1"),
            Constant((32 - b) * 8), Opcode("SHL"), Opcode("MSIZE"), Opcode("MSTORE")>>

RECURSIVE StoreGroups(_, _)
StoreGroups(L, n) == IF n = 0 THEN <<>> ELSE StoreGroups(L, n - 1) \o StoreGroup(L, n - 1)

\* What call k is to flatten to: with pushOffsets the length and MSIZE, then
\* ceil(L / 32) store groups.
ExpectedAlloc(k) ==
  LET L == byteLength(calls[k].args[1])
      header == IF calls[k].args[2].value
                THEN <<Opcode("PUSH" \o ToString(Len(BigInt(L)))), Constant(L),
                       Opcode("MSIZE")>>
                ELSE <<>>
  IN header \o StoreGroups(L, (L + 31) \div 32)

RECURSIVE ExpectedAllocs(_)
ExpectedAllocs(k) == IF k = 0 THEN <<>> ELSE ExpectedAllocs(k - 1) \o ExpectedAlloc(k)

\* The item is what the shape asks for.
HasShape(item, shape) ==
  CASE shape.shape = "opcode" -> item = Instruction(shape.name)
    [] shape.shape = "constant" -> item = Number(shape.value)
    [] shape.shape = "data" ->
         /\ item.kind # "Instruction"
         /\ Len(translateToBytecode(item, codeContext, jumpDestinations)) = 2 * shape.bytes

\* C19: for an input of L >= 1 bytes alloc(v, pushOffsets) emits exactly ceil(L / 32)
\* MSIZE/MSTORE store groups (a full word pushed as 32 bytes, a last partial word of
\* b < 32 bytes pushed as b bytes and shifted left by (32 - b) * 8 bits), after the
\* length and MSIZE when pushOffsets is true; its net effect on the symbolic stack is
\* +2 entries when pushOffsets is true and 0 when it is false.
C19_AllocStoresWordByWord ==
  pc = "done" =>
    LET expected == ExpectedAllocs(Len(calls))
    IN /\ Len(intermediate) = Len(expected)
       /\ \A i \in 1..Len(expected) : HasShape(intermediate[i], expected[i])
       /\ Len(stack) = 2 * Cardinality({k \in 1..Len(calls) : calls[k].args[2].value})

-----------------------------------------------------------------------------
(* SpecDispatch: dispatch(mapping) over mappings of one and two entries,   *)
(* whose selectors start with a zero byte or not and whose pointers are    *)
(* $ptr("a") or what an earlier call returned; stop() calls are the        *)
(* targets.                                                                *)

DispatchProfile ==
  [scalars |-> {},
   pushed |-> {},
   references |-> FALSE,
   labels |-> {NoLabel, "a"},
   positions |-> {<<CallLine, 1>>},
   ops |-> {<<"stop", 0, "STOP">>}]

\* The first four bytes of the hash of a signature.
Selectors == {<<171, 205, 18, 52>>, <<0, 205, 18, 52>>, <<0, 0, 0, 1>>}

Entries ==
  [fourBytes : Selectors, pointer : {LabelPointer("a")} \cup ScriptPointers]

Mapping(entries) == [kind |-> "mapping", entries |-> entries]

\* dispatch({signature: pointer, ...})
CallDispatch ==
  /\ CanCall
  /\ \E mapping \in {<<e>> : e \in Entries} \cup {<<e, f>> : e, f \in Entries} :
       Evaluate(createActionHandler(Script,
                  dispatch(Heap(Script), mapping, <<CallLine + 1, 1>>),
                  NoLabel, "dispatch", <<Mapping(mapping)>>))

InitDispatch ==
  /\ InitScript(EmptyScript)
  /\ InitProcessor
  /\ hx = NoItem

NextDispatch ==
  \/ CallDefault(DispatchProfile)
  \/ CallDispatch
  \/ Pipeline

SpecDispatch == InitDispatch /\ [][NextDispatch]_vars

\* The offset n < 65536 as two bytes.
TwoBytes(n) == ToUpperCase(ByteToHex(n \div 256) \o ByteToHex(n % 256))

\* What an entry is to emit: calldataload(0, 4) (PUSH1 00, CALLDATALOAD, PUSH1 E0,
\* SHR), PUSH4 and the 4 bytes of the selector, EQ, PUSH2 and the 2-byte pointer, JUMPI.
ExpectedEntry(entry) ==
  <<"6", "0", "0", "0", "3", "5", "6", "0", "E", "0", "1", "C", "6", "3">>
  \o ToUpperCase(BytesToHex(entry.fourBytes))
  \o <<"1", "4", "6", "1">>
  \o TwoBytes(jumpDestinations[PointedAction(entry.pointer)])
  \o <<"5", "7">>

\* What call k is to emit: its entries for dispatch, STOP after a JUMPDEST where it is
\* labelled for stop().
ExpectedOfCall(k) ==
  IF calls[k].helper = "dispatch"
  THEN Join([i \in 1..Len(calls[k].args[1].entries) |->
               ExpectedEntry(calls[k].args[1].entries[i])])
  ELSE (IF actions[calls[k].id + 1].isJumpDestination THEN <<"5", "B">> ELSE <<>>)
       \o <<"0", "0">>

\* C20: for every entry of the mapping dispatch emits calldataload(0, 4), then PUSH4
\* followed by exactly the 4 bytes of the selector (also when its leading byte is
\* 0x00), then EQ, PUSH2 and the 2-byte pointer, then JUMPI; it emits nothing else (no
\* default branch) and its net effect on the symbolic stack is 0.
C20_DispatchEmitsFourByteSelectors ==
  pc = "done" =>
    /\ output = <<"0", "x">> \o Join([k \in 1..Len(calls) |-> ExpectedOfCall(k)])
    /\ Len(stack) = 0

-----------------------------------------------------------------------------
(* SpecCounters: two compiles in one process.  Action.nextId and           *)
(* StackReference.nextIndex are static: the second compile starts with the *)
(* values the first one left, a new RuntimeContext, a new context of names *)
(* and a new ActionProcessor.  `hx` keeps what the first compile was given *)
(* and what it returned.                                                   *)

CounterProfile ==
  [scalars |-> {Number(2)},
   pushed |-> {Number(1)},
   references |-> TRUE,
   labels |-> {NoLabel, "a"},
   positions |-> {<<CallLine, 1>>, <<CallLine, 5>>},
   ops |-> {<<"add", 2, "ADD">>, <<"jump", 1, "JUMP">>}]

\* The value of Action.nextId when the running compile started.
FirstId(cs) == IF cs = <<>> THEN 0 ELSE cs[1].id

\* An argument with the Actions it names counted from the first of the compile.
RelativeArgument(arg, first) ==
  IF arg.kind \in {"ActionPointer", "RelativeStackReference"}
  THEN [arg EXCEPT !.action = @ - first]
  ELSE arg

\* The script as text: its calls with their arguments, names and positions, the
\* results counted from the first of the compile.
ScriptText(cs, A) ==
  [k \in 1..Len(cs) |->
     [helper |-> cs[k].helper,
      label |-> cs[k].label,
      position |-> originalLineAndColumn(A[cs[k].id + 1]),
      result |-> cs[k].id - FirstId(cs),
      args |-> [i \in 1..Len(cs[k].args) |-> RelativeArgument(cs[k].args[i], FirstId(cs))]]]

IsPrefix(s, t) == Len(s) <= Len(t) /\ s = SubSeq(t, 1, Len(s))

\* The second compile is given the script of the first.
Replays == hx = NoItem \/ IsPrefix(ScriptText(calls, actions), hx.script)

\* preprocess() is called again after it returned.
CompileAgain ==
  /\ pc = "done"
  /\ hx = NoItem
  /\ hx' = [kind |-> "previous", script |-> ScriptText(calls, actions), output |-> output]
  /\ rtActions' = <<>>
  /\ rtTailActions' = <<>>
  /\ codeContext' = EmptyScript.codeContext
  /\ calls' = <<>>
  /\ pc' = "script"
  /\ intermediate' = <<>>
  /\ actionStartIndeces' = <<>>
  /\ actionEndIndeces' = <<>>
  /\ stack' = <<>>
  /\ actionStack' = <<>>
  /\ stackHistory' = <<>>
  /\ itemIndex' = 0
  /\ bytesPerInstruction' = <<>>
  /\ totalBytesAtInstruction' = <<>>
  /\ jumpDestinations' = <<>>
  /\ output' = <<>>
  /\ UNCHANGED <<actions, nextIndex, error>>

InitCounters ==
  /\ InitScript(EmptyScript)
  /\ InitProcessor
  /\ hx = NoItem

NextCounters ==
  \/ CallPush(CounterProfile) /\ Replays'
  \/ CallDefault(CounterProfile) /\ Replays'
  \/ CallDup(CounterProfile) /\ Replays'
  \/ Pipeline
  \/ CompileAgain

SpecCounters == InitCounters /\ [][NextCounters]_vars

\* C21: a compile of the same script returns the same string whatever values
\* Action.nextId and StackReference.nextIndex have when it starts: the second compile
\* of a process returns what the first returned.
C21_OutputIndependentOfCounters ==
  (pc = "done" /\ hx # NoItem /\ ScriptText(calls, actions) = hx.script) =>
    output = hx.output

\* The second compile of a script with a label, a pointer and a stack reference is
\* done, and its Actions and stack references carry other ids than the first's.
C21_Witness ==
  /\ pc = "done"
  /\ hx # NoItem
  /\ ScriptText(calls, actions) = hx.script
  /\ FirstId(calls) > 0
  /\ \E k \in 1..Len(calls) : calls[k].helper = "dup"
  /\ \E i \in 1..Len(stack) : stack[i] >= 2

-----------------------------------------------------------------------------
(* SpecStack: the symbolic stack of processStack under literal opcodes.     *)
(* The script starts with 0, 1, 2, 3 or MaxPrelude pushes and calls the     *)
(* opcode helpers without arguments (swap1(), dup2(), pop(), sstore(), ...) *)
(* besides push(), set() and dup() with stack references.                  *)

StackOpsProfile ==
  [scalars |-> {},
   pushed |-> {Number(1)},
   references |-> FALSE,
   labels |-> {NoLabel},
   positions |-> {<<CallLine, 1>>},
   ops |-> {<<"swap1", 0, "SWAP1">>, <<"swap2", 0, "SWAP2">>, <<"swap16", 0, "SWAP16">>,
            <<"dup1", 0, "DUP1">>, <<"dup2", 0, "DUP2">>, <<"pop", 0, "POP">>,
            <<"add", 0, "ADD">>, <<"sstore", 0, "SSTORE">>,
            <<"extcodecopy", 0, "EXTCODECOPY">>}]

PreludeLengths == {0, 1, 2, 3, MaxPrelude}

InitStack ==
  /\ \E n \in PreludeLengths : InitScript(Prelude(n))
  /\ InitProcessor
  /\ hx = NoItem

\* The numbers of stack items the script passes to allocStack().
AllocAmounts == {1, 3}

\* allocStack(n), allocStack(n, false), allocStack($ref), allocStack($ref, false)
CallAllocStack(P) ==
  /\ CanCall
  /\ \E input \in {Number(n) : n \in AllocAmounts} \cup ScriptReferences,
        pushOffsets \in BOOLEAN, label \in P.labels, pos \in P.positions :
       Evaluate(createActionHandler(Script, allocStack(Heap(Script), input, pushOffsets, pos),
                                    label, "allocStack", <<input, Boolean(pushOffsets)>>))

NextStack ==
  \/ CallPush(StackOpsProfile)
  \/ CallDefault(StackOpsProfile)
  \/ CallAllocStack(StackOpsProfile)
  \/ CallSet(StackOpsProfile)
  \/ CallDup(StackOpsProfile)
  \/ Pipeline

SpecStack == InitStack /\ [][NextStack]_vars

\* processStack is about to process an opcode the script wrote itself.
AtLiteral ==
  /\ pc = "processStack"
  /\ itemIndex < Len(intermediate)
  /\ CurrentItem.kind = "Instruction"

\* The stack with the entries at index 0 and index n exchanged.
Exchanged(s, n) == [i \in 1..Len(s) |-> IF i = 1 THEN s[n + 1] ELSE IF i = n + 1 THEN s[1] ELSE s[i]]

\* C22: a literal SWAPn on a symbolic stack of s entries exchanges the entries at index
\* 0 and index n and leaves every other entry and the size as they were when n < s, and
\* fails the compile with "swap index out of range" when n >= s.
C22_LiteralSwapExchangesOrFails ==
  [][\A n \in 1..16 :
       (AtLiteral /\ CurrentItem = Instruction("SWAP" \o ToString(n))) =>
         IF n < Len(stack)
         THEN pc' # "error" /\ stack' = Exchanged(stack, n)
         ELSE FailsWith("Cannot execute SWAP" \o ToString(n) \o ": swap index out of range")]_vars

\* swap16() has exchanged the top with the entry 16 below it on a stack of 17 entries
\* whose references are all different.
C22_Witness ==
  /\ pc # "error"
  /\ itemIndex > 0
  /\ intermediate[itemIndex] = Instruction("SWAP16")
  /\ Len(stack) = 17
  /\ stack[1] = 0
  /\ stack[17] = 16

-----------------------------------------------------------------------------
(* SpecRef: [$0, $1, $2, ...] = helper().  The script takes the stack       *)
(* references of index 0, 1, 2 and 15 of its first and of its latest result *)
(* and passes them to dup() and set(); results have children when a pointer *)
(* is passed to add().                                                      *)

RefIndices == {0, 1, 2, 15}

RefProfile ==
  [scalars |-> {Number(2)},
   pushed |-> {Number(1)},
   references |-> FALSE,
   labels |-> {NoLabel, "a"},
   positions |-> {<<CallLine, 1>>},
   ops |-> {<<"add", 2, "ADD">>, <<"pop", 0, "POP">>, <<"swap1", 0, "SWAP1">>}]

\* What the iterator of an ActionPointer yields: action.stack[index].
ReferencesAt ==
  IF rtActions = <<>> THEN {}
  ELSE {RelativeStackReference("Raw", id, index) : id \in {rtActions[1], Last},
                                                   index \in RefIndices}

\* dup($i)
CallDupAt(P) ==
  /\ CanCall
  /\ \E ref \in ReferencesAt, label \in P.labels, pos \in P.positions :
       Evaluate(createActionHandler(Script, dup(Heap(Script), ref, pos), label,
                                    "dup", <<ref>>))

\* set($i) and set($i, v)
CallSetAt(P) ==
  /\ CanCall
  /\ \E ref \in ReferencesAt, label \in P.labels, pos \in P.positions :
       \E rest \in {<<>>} \cup {<<v>> : v \in P.scalars} :
         Evaluate(createActionHandler(Script, set(Heap(Script), <<ref>> \o rest, pos),
                                      label, "set", <<ref>> \o rest))

InitRef ==
  /\ \E n \in {0, 3, MaxPrelude} : InitScript(Prelude(n))
  /\ InitProcessor
  /\ hx = NoItem

NextRef ==
  \/ CallPush(RefProfile)
  \/ CallDefault(RefProfile)
  \/ CallDupAt(RefProfile)
  \/ CallSetAt(RefProfile)
  \/ Pipeline

SpecRef == InitRef /\ [][NextRef]_vars

\* The number of items Action id flattens to, its children included.
RECURSIVE FlatSize(_)
FlatSize(id) ==
  (IF actions[id + 1].isJumpDestination THEN 1 ELSE 0)
  + SumSeq([i \in 1..Len(actions[id + 1].intermediate) |->
              IF actions[id + 1].intermediate[i].kind = "Action"
              THEN FlatSize(actions[id + 1].intermediate[i].id)
              ELSE 1])

\* The index of the last flattened item of Action id.
LastItemOf(id) == StartIndexOf(id) + FlatSize(id) - 1

\* The entry reference `ref` denotes is on the symbolic stack at index d.
Denotes(ref, d) ==
  /\ ref.index < Len(stackHistory[ref.action])
  /\ d < Len(stack)
  /\ stack[d + 1] = stackHistory[ref.action][ref.index + 1]

\* C23: the snapshot of an Action is the symbolic stack right after its last flattened
\* item, children included, and it is kept; a stack reference of index i of an Action
\* that has ended is lowered to the DUP or SWAP that reaches, at the depth it has when
\* the reference is processed, the entry at index i of that snapshot.
C23_ReferenceDenotesSnapshotEntry ==
  /\ [][\A id \in StartedActions :
          (pc = "processStack" /\ itemIndex = LastItemOf(id) /\ pc' # "error") =>
            (id \in DOMAIN stackHistory' /\ stackHistory'[id] = stack')]_vars
  /\ [][\A id \in DOMAIN stackHistory :
          pc = "processStack" =>
            (id \in DOMAIN stackHistory' /\ stackHistory'[id] = stackHistory[id])]_vars
  /\ [][\A d \in Depths :
          (/\ AtReference({"Dup", "HotSwap"})
           /\ CurrentItem.action \in DOMAIN stackHistory
           /\ Denotes(CurrentItem, d)) =>
            /\ (CurrentItem.class = "Dup" /\ d <= 15) =>
                 (pc' # "error" /\ intermediate'[itemIndex + 1] = Instruction("DUP" \o ToString(d + 1)))
            /\ (CurrentItem.class = "HotSwap" /\ d >= 1 /\ d <= 16) =>
                 (pc' # "error" /\ intermediate'[itemIndex + 1] = Instruction("SWAP" \o ToString(d)))]_vars

\* dup($2) of the result of an add() that has a push as its child has been lowered: the
\* entry at index 2 of the snapshot of the add() is two below the top, so DUP3.
C23_Witness ==
  /\ pc = "done"
  /\ \E k \in 1..Len(calls) :
       /\ calls[k].helper = "dup"
       /\ calls[k].args[1].index = 2
       /\ FlatSize(calls[k].args[1].action) > Len(actions[calls[k].args[1].action + 1].intermediate)
       /\ intermediate[LastItemOf(calls[k].id) + 1] = Instruction("DUP3")

\* processStack is about to process DUPn: written by the script, or a stack reference
\* that is lowered to it in this step.
AtDup(n) ==
  /\ pc = "processStack"
  /\ itemIndex < Len(intermediate)
  /\ pc' # "error"
  /\ intermediate'[itemIndex + 1] = Instruction("DUP" \o ToString(n))

\* C24: after a DUPn, literal or lowered from a stack reference, the top entry of the
\* symbolic stack is the reference that was at index n-1 before it, and the entries
\* that were there before follow in their order.
C24_DupPutsDuplicatedReferenceOnTop ==
  [][\A n \in 1..16 :
       (AtDup(n) /\ n <= Len(stack)) =>
         (stack' = <<stack[n]>> \o stack)]_vars

-----------------------------------------------------------------------------
(* SpecTail: tail actions.  method(() => { jump(v) }) runs its callback,    *)
(* whose jump(v) is appended to the runtime context like any call, and      *)
(* returns a TailAction that holds the callback's Actions as its children.  *)
(* The pointer method() returns can be passed to a later helper call.       *)

TailProfile ==
  [scalars |-> {Number(2)},
   pushed |-> {Number(1)},
   references |-> FALSE,
   labels |-> {NoLabel, "a"},
   positions |-> {<<CallLine, 1>>, <<CallLine, 5>>},
   ops |-> {<<"jump", 1, "JUMP">>, <<"stop", 0, "STOP">>}]

\* The script's state after the callback of method() has called jump(v): the handler of
\* jump has appended its Action to the runtime context.
methodCallback(S, v, pos) ==
  LET H == createDefaultAction(Heap(S), "jump", Instruction("JUMP"), <<v>>, pos)
      S1 == [S EXCEPT !.actions = H.actions, !.error = H.error]
  IN IF H.error # NoError THEN S1 ELSE pushActions(S1, Len(S.actions))

\* method(callback): the Actions the callback appended that have no parent become the
\* children of a new TailAction.
method(S, first, pos) ==
  LET H1 == NewTailAction(Heap(S), "method", pos)
      id == LastId(H1)
      appended == SelectSeq(SubSeq(S.rtActions, first + 1, Len(S.rtActions)),
                            LAMBDA a : S.actions[a + 1].parentAction = NoAction)
  IN IF S.error # NoError THEN Heap(S)
     ELSE forcePush(H1, id, [k \in 1..Len(appended) |-> ActionItem(appended[k])])

\* The pointers to tail actions the script holds.
TailPointers ==
  IF rtTailActions = <<>> THEN {} ELSE {ActionPointer(rtTailActions[Len(rtTailActions)])}

\* label = method(() => { jump(v) })
CallMethod(P) ==
  /\ CanCall
  /\ \E v \in Arguments(P), label \in P.labels, pos \in P.positions :
       LET S1 == methodCallback(Script, v, <<pos[1], pos[2] + 2>>)
       IN Evaluate(createActionHandler(S1, method(S1, Len(rtActions), pos), label,
                                       "method", <<v>>))

\* jump(m), m the pointer a call of method() returned
CallJumpToMethod(P) ==
  /\ CanCall
  /\ \E m \in TailPointers, label \in P.labels, pos \in P.positions :
       Evaluate(createActionHandler(Script,
                  createDefaultAction(Heap(Script), "jump", Instruction("JUMP"), <<m>>, pos),
                  label, "jump", <<m>>))

InitTail ==
  /\ InitScript(EmptyScript)
  /\ InitProcessor
  /\ hx = NoItem

NextTail ==
  \/ CallPush(TailProfile)
  \/ CallDefault(TailProfile)
  \/ CallMethod(TailProfile)
  \/ CallJumpToMethod(TailProfile)
  \/ Pipeline

SpecTail == InitTail /\ [][NextTail]_vars

\* The ids in a bucket.
Bucket(ids) == {ids[i] : i \in 1..Len(ids)}

\* The tail actions, and the Actions of the main bucket that have no parent.
TailActions == Bucket(rtTailActions)

TopLevelNonTail == {id \in Bucket(rtActions) : actions[id + 1].parentAction = NoAction}

TopLevelTailComesLast ==
  pc \in Flattening =>
    \A t \in TailActions, a \in TopLevelNonTail :
      actions[t + 1].parentAction = NoAction => LastItemOf(a) < StartIndexOf(t)

-----------------------------------------------------------------------------
(* SpecParent: the Actions as grammar.ts exports them.  Actions are         *)
(* constructed at positions of the script and given to each other with      *)
(* push and forcePush.                                                      *)

MaxActions == 3

MaxItems == 2

ActionIds == 0..(Len(actions) - 1)

\* The heap becomes H; an exception ends the run.
Leave(H) ==
  /\ actions' = H.actions
  /\ IF H.error # NoError
     THEN pc' = "error" /\ error' = H.error
     ELSE UNCHANGED <<pc, error>>
  /\ UNCHANGED <<rtActions, rtTailActions, codeContext, calls, procVars, hx>>

\* new Action("a")
ConstructAction ==
  /\ pc = "script"
  /\ Len(actions) < MaxActions
  /\ \E pos \in {<<1, 1>>, <<2, 1>>} :
       Leave(NewAction([actions |-> actions, error |-> NoError], "a", pos))

\* parent.push(child)
PushChild ==
  /\ pc = "script"
  /\ \E parent \in ActionIds, child \in ActionIds :
       /\ parent # child
       /\ Len(actions[parent + 1].intermediate) < MaxItems
       /\ Leave(ActionPush([actions |-> actions, error |-> NoError], parent,
                           <<ActionItem(child)>>))

\* parent.forcePush(child)
ForcePushChild ==
  /\ pc = "script"
  /\ \E parent \in ActionIds, child \in ActionIds :
       /\ parent # child
       /\ Len(actions[parent + 1].intermediate) < MaxItems
       /\ Leave(forcePush([actions |-> actions, error |-> NoError], parent,
                          <<ActionItem(child)>>))

InitParent ==
  /\ InitScript(EmptyScript)
  /\ InitProcessor
  /\ hx = NoItem

NextParent ==
  \/ ConstructAction
  \/ PushChild
  \/ ForcePushChild

SpecParent == InitParent /\ [][NextParent]_vars

\* The Actions that hold Action `child` among their items.
HoldersOf(A, child) ==
  {id \in 0..(Len(A) - 1) :
     \E i \in 1..Len(A[id + 1].intermediate) : A[id + 1].intermediate[i] = ActionItem(child)}

\* C26: an Action receives a parent at most once: an operation that would give a parent
\* to an Action that has one fails with a fatal error and changes nothing, so the
\* recorded parent of an Action is the first one it was given.
C26_ParentGivenOnce ==
  [][\A child \in ActionIds :
       actions[child + 1].parentAction # NoAction =>
         /\ actions'[child + 1].parentAction = actions[child + 1].parentAction
         /\ HoldersOf(actions', child) = HoldersOf(actions, child)]_vars

\* The same for Action.push alone.
PushGivesParentOnce ==
  [][\A child \in ActionIds :
       (actions[child + 1].parentAction # NoAction
        /\ actions'[child + 1].parentAction # actions[child + 1].parentAction) =>
         \E parent \in ActionIds :
           actions' = forcePush([actions |-> actions, error |-> NoError], parent,
                                <<ActionItem(child)>>).actions]_vars


\* The number of stack items each instruction of the EVM consumes and produces, for the
\* instructions of the table other than DUP1..DUP16 and SWAP1..SWAP16.
EvmStackEffects ==
  {
      <<"STOP", 0, 0>>, <<"ADD", 2, 1>>, <<"MUL", 2, 1>>, <<"SUB", 2, 1>>, <<"DIV", 2, 1>>,
      <<"SDIV", 2, 1>>, <<"MOD", 2, 1>>, <<"SMOD", 2, 1>>, <<"ADDMOD", 3, 1>>,
      <<"MULMOD", 3, 1>>, <<"EXP", 2, 1>>, <<"SIGNEXTEND", 2, 1>>, <<"LT", 2, 1>>,
      <<"GT", 2, 1>>, <<"SLT", 2, 1>>, <<"SGT", 2, 1>>, <<"EQ", 2, 1>>, <<"ISZERO", 1, 1>>,
      <<"AND", 2, 1>>, <<"OR", 2, 1>>, <<"XOR", 2, 1>>, <<"NOT", 1, 1>>, <<"BYTE", 2, 1>>,
      <<"SHL", 2, 1>>, <<"SHR", 2, 1>>, <<"SAR", 2, 1>>, <<"SHA3", 2, 1>>,
      <<"ADDRESS", 0, 1>>, <<"BALANCE", 1, 1>>, <<"ORIGIN", 0, 1>>, <<"CALLER", 0, 1>>,
      <<"CALLVALUE", 0, 1>>, <<"CALLDATALOAD", 1, 1>>, <<"CALLDATASIZE", 0, 1>>,
      <<"CALLDATACOPY", 3, 0>>, <<"CODESIZE", 0, 1>>, <<"CODECOPY", 3, 0>>,
      <<"GASPRICE", 0, 1>>, <<"EXTCODESIZE", 1, 1>>, <<"EXTCODECOPY", 4, 0>>,
      <<"RETURNDATASIZE", 0, 1>>, <<"RETURNDATACOPY", 3, 0>>, <<"EXTCODEHASH", 1, 1>>,
      <<"BLOCKHASH", 1, 1>>, <<"COINBASE", 0, 1>>, <<"TIMESTAMP", 0, 1>>,
      <<"NUMBER", 0, 1>>, <<"DIFFICULTY", 0, 1>>, <<"GASLIMIT", 0, 1>>,
      <<"CHAINID", 0, 1>>, <<"SELFBALANCE", 0, 1>>, <<"BASEFEE", 0, 1>>, <<"POP", 1, 0>>,
      <<"MLOAD", 1, 1>>, <<"MSTORE", 2, 0>>, <<"MSTORE8", 2, 0>>, <<"SLOAD", 1, 1>>,
      <<"SSTORE", 2, 0>>, <<"JUMP", 1, 0>>, <<"JUMPI", 2, 0>>, <<"PC", 0, 1>>,
      <<"MSIZE", 0, 1>>, <<"GAS", 0, 1>>, <<"JUMPDEST", 0, 0>>, <<"PUSH1", 0, 1>>,
      <<"PUSH2", 0, 1>>, <<"PUSH3", 0, 1>>, <<"PUSH4", 0, 1>>, <<"PUSH5", 0, 1>>,
      <<"PUSH6", 0, 1>>, <<"PUSH7", 0, 1>>, <<"PUSH8", 0, 1>>, <<"PUSH9", 0, 1>>,
      <<"PUSH10", 0, 1>>, <<"PUSH11", 0, 1>>, <<"PUSH12", 0, 1>>, <<"PUSH13", 0, 1>>,
      <<"PUSH14", 0, 1>>, <<"PUSH15", 0, 1>>, <<"PUSH16", 0, 1>>, <<"PUSH17", 0, 1>>,
      <<"PUSH18", 0, 1>>, <<"PUSH19", 0, 1>>, <<"PUSH20", 0, 1>>, <<"PUSH21", 0, 1>>,
      <<"PUSH22", 0, 1>>, <<"PUSH23", 0, 1>>, <<"PUSH24", 0, 1>>, <<"PUSH25", 0, 1>>,
      <<"PUSH26", 0, 1>>, <<"PUSH27", 0, 1>>, <<"PUSH28", 0, 1>>, <<"PUSH29", 0, 1>>,
      <<"PUSH30", 0, 1>>, <<"PUSH31", 0, 1>>, <<"PUSH32", 0, 1>>, <<"LOG0", 2, 0>>,
      <<"LOG1", 3, 0>>, <<"LOG2", 4, 0>>, <<"LOG3", 5, 0>>, <<"LOG4", 6, 0>>,
      <<"CREATE", 3, 1>>, <<"CALL", 7, 1>>, <<"CALLCODE", 7, 1>>, <<"RETURN", 2, 0>>,
      <<"DELEGATECALL", 6, 1>>, <<"CREATE2", 4, 1>>, <<"STATICCALL", 6, 1>>,
      <<"REVERT", 2, 0>>, <<"SELFDESTRUCT", 1, 0>>
  }

\* C27: for every opcode of the table other than DUP1..DUP16 and SWAP1..SWAP16 the pair
\* (removed, added) of the stack simulation is the EVM's, so that after a literal opcode
\* the symbolic stack has the height the runtime stack has.
C27_StackDeltaIsEvm ==
  /\ [](\A row \in InstructionTable :
          (row[2] < Instruction("DUP1").code \/ row[2] > Instruction("SWAP16").code) =>
            <<row[1], row[3], row[4]>> \in EvmStackEffects)
  /\ [][\A effect \in EvmStackEffects :
          (/\ AtLiteral
           /\ CurrentItem.name = effect[1]
           /\ effect[2] <= Len(stack)
           /\ pc' # "error") =>
            Len(stack') = Len(stack) - effect[2] + effect[3]]_vars

\* The same without the five rows SSTORE, CALLCODE, DELEGATECALL, CREATE2, STATICCALL.
OtherRowsAreEvm ==
  \A row \in InstructionTable :
    (/\ row[2] < Instruction("DUP1").code \/ row[2] > Instruction("SWAP16").code
     /\ row[1] \notin {"SSTORE", "CALLCODE", "DELEGATECALL", "CREATE2", "STATICCALL"}) =>
      <<row[1], row[3], row[4]>> \in EvmStackEffects


\* C28: no reference occurs twice in the symbolic stack, at any point of processStack
\* and in any snapshot taken at the end of an Action.
C28_NoReferenceTwice ==
  /\ \A i, j \in 1..Len(stack) : i # j => stack[i] # stack[j]
  /\ \A id \in DOMAIN stackHistory :
       \A i, j \in 1..Len(stackHistory[id]) : i # j => stackHistory[id][i] # stackHistory[id][j]

\* dup1() and swap2() have been processed on a stack of several entries.
C28_Witness ==
  /\ pc = "done"
  /\ Len(stack) >= 4
  /\ \E i, j \in 1..Len(intermediate) :
       /\ i < j
       /\ intermediate[i] = Instruction("DUP1")
       /\ intermediate[j] = Instruction("SWAP2")


\* C29: an opcode other than SWAPn that removes more entries than the symbolic stack
\* holds raises no error: the entries there are are removed, the added ones are put on
\* top, the stack has max(0, size - removed) + added entries and the compile goes on.
C29_UnderflowIsSilent ==
  [][(AtLiteral /\ ~isSwap(CurrentItem)) =>
       /\ pc' # "error"
       /\ Len(stack') = (IF Len(stack) > CurrentItem.stackRemoved
                         THEN Len(stack) - CurrentItem.stackRemoved ELSE 0)
                        + CurrentItem.stackAdded
       /\ \A i \in 1..(Len(stack) - CurrentItem.stackRemoved) :
            stack'[CurrentItem.stackAdded + i] = stack[CurrentItem.stackRemoved + i]]_vars

\* allocStack(3) on the empty stack has compiled: each MSTORE found one entry where it
\* removes two.
C29_Witness ==
  /\ pc = "done"
  /\ Len(calls) = 1
  /\ calls[1].helper = "allocStack"
  /\ calls[1].args = <<Number(3), Boolean(TRUE)>>
  /\ output = <<"0", "x", "5", "9", "5", "2", "5", "9", "5", "2", "5", "9", "5", "2",
                "6", "0", "6", "0", "8", "0", "5", "9", "0", "3">>

-----------------------------------------------------------------------------
(* SpecContext: the RuntimeContext while the script runs.  The script calls *)
(* push(), method() and $(key, value).  The object has the properties       *)
(* deployable, actions and tailActions and inherits pushActions; `hx` holds *)
(* the properties that are not buckets.                                     *)

ContextProfile ==
  [scalars |-> {Number(2)},
   pushed |-> {Number(1)},
   references |-> FALSE,
   labels |-> {NoLabel, "a"},
   positions |-> {<<CallLine, 1>>, <<CallLine + 1, 1>>},
   ops |-> {}]

\* String.prototype.trim on a string of characters.
RECURSIVE trim(_)
trim(str) ==
  IF str = <<>> THEN str
  ELSE IF Head(str) = " " THEN trim(Tail(str))
  ELSE IF str[Len(str)] = " " THEN trim(SubSeq(str, 1, Len(str) - 1))
  ELSE str

\* new RuntimeContext(): pushActions is the method of the class.
RuntimeContext(main, tail, other) ==
  [actions |-> main, tailActions |-> tail, deployable |-> other.deployable,
   pushActions |-> other.pushActions, option |-> other.option]

NewRuntimeContext ==
  [kind |-> "RuntimeContext", deployable |-> Boolean(FALSE), pushActions |-> "method",
   option |-> Undefined]

\* $(context, key, value): context[key.toString().trim()] = value
Dollar(context, key, value) ==
  LET name == trim(key)
  IN IF name = <<"a", "c", "t", "i", "o", "n", "s">>
     THEN [context EXCEPT !.actions = value]
     ELSE IF name = <<"t", "a", "i", "l", "A", "c", "t", "i", "o", "n", "s">>
     THEN [context EXCEPT !.tailActions = value]
     ELSE IF name = <<"p", "u", "s", "h", "A", "c", "t", "i", "o", "n", "s">>
     THEN [context EXCEPT !.pushActions = value]
     ELSE IF name = <<"d", "e", "p", "l", "o", "y", "a", "b", "l", "e">>
     THEN [context EXCEPT !.deployable = value]
     ELSE [context EXCEPT !.option = value]

\* The keys and values the script passes to $(): the flag of the specification with
\* true, and each property of the object, spaces around one of them, with [].
ContextArguments ==
  {<<<<"d", "e", "p", "l", "o", "y", "a", "b", "l", "e">>, Boolean(TRUE)>>,
   <<<<" ", "d", "e", "p", "l", "o", "y", "a", "b", "l", "e", " ">>, Boolean(TRUE)>>,
   <<<<"o", "p", "t", "i", "o", "n">>, <<>>>>,
   <<<<"a", "c", "t", "i", "o", "n", "s">>, <<>>>>,
   <<<<" ", "a", "c", "t", "i", "o", "n", "s">>, <<>>>>,
   <<<<"t", "a", "i", "l", "A", "c", "t", "i", "o", "n", "s">>, <<>>>>,
   <<<<"p", "u", "s", "h", "A", "c", "t", "i", "o", "n", "s">>, <<>>>>}

\* $(key, value), through the handler createContextHandler makes.
CallDollar ==
  /\ CanCall
  /\ \E input \in ContextArguments :
       LET context == Dollar(RuntimeContext(rtActions, rtTailActions, hx), input[1], input[2])
       IN /\ rtActions' = context.actions
          /\ rtTailActions' = context.tailActions
          /\ hx' = [hx EXCEPT !.deployable = context.deployable,
                              !.pushActions = context.pushActions,
                              !.option = context.option]
          /\ calls' = Append(calls, [helper |-> "$", args |-> input, label |-> NoLabel,
                                     id |-> NoAction])
  /\ UNCHANGED <<actions, codeContext, pc, error, procVars>>

\* A helper called when pushActions is no longer the method: the handler throws.
CallWithoutPushActions ==
  /\ CanCall
  /\ hx.pushActions # "method"
  /\ pc' = "error"
  /\ error' = "TypeError: runtimeContext.pushActions is not a function"
  /\ UNCHANGED <<scriptVars, procVars, hx>>

InitContext ==
  /\ InitScript(EmptyScript)
  /\ InitProcessor
  /\ hx = NewRuntimeContext

NextContext ==
  \/ hx.pushActions = "method" /\ CallPush(ContextProfile)
  \/ hx.pushActions = "method" /\ CallMethod(ContextProfile)
  \/ CallWithoutPushActions
  \/ CallDollar

SpecContext == InitContext /\ [][NextContext]_vars

\* The step is a call of $().
IsDollarCall ==
  /\ Len(calls') = Len(calls) + 1
  /\ calls'[Len(calls')].helper = "$"

\* C30: a call $(key, value) changes only the configuration entry the key names: the
\* actions bucket, the tail actions bucket and pushActions of the runtime context are
\* after the call what they were before it, for every key and value.
C30_DollarChangesOnlyConfiguration ==
  [][IsDollarCall =>
       /\ rtActions' = rtActions
       /\ rtTailActions' = rtTailActions
       /\ hx'.pushActions = hx.pushActions]_vars

\* The same for the keys that name no property of the class.
DollarOfConfigurationKey ==
  [][(/\ IsDollarCall
      /\ trim(calls'[Len(calls')].args[1])
           \in {<<"d", "e", "p", "l", "o", "y", "a", "b", "l", "e">>,
                <<"o", "p", "t", "i", "o", "n">>}) =>
       /\ rtActions' = rtActions
       /\ rtTailActions' = rtTailActions
       /\ hx'.pushActions = hx.pushActions]_vars

====
